---- MODULE Spec2Model ----
(***************************************************************************)
(* Generate-validate-retry pipeline of the crewAI tool generator:          *)
(*   component-generator/src/crewai_validator.py   structural validator    *)
(*   component-generator/src/pattern_matcher.py    pattern scorer          *)
(*   component-generator/src/crewai_agent.py       gate and orchestrator   *)
(*   component-generator/src/dependency_validator.py, supported_libraries  *)
(*                                                  dependency classifier  *)
(*                                                                         *)
(* A candidate source text is represented by what ast.parse makes of it:   *)
(* either a SyntaxError (line, message) or a module tree, of which the     *)
(* model keeps exactly the facts the two validators read.                  *)
(***************************************************************************)
EXTENDS Integers, Sequences, FiniteSets, TLC

(***************************************************************************)
(* Bounds of the model.                                                    *)
(***************************************************************************)
\* largest retry budget a generator instance is constructed with
MaxRetriesBound == 2
\* largest line number a SyntaxError reports
MaxLine == 2
\* longest dependency list of a request
MaxDeps == 2
\* most classifier calls made one after the other
MaxCalls == 3
MaxRequirements == 6
MaxExemplars == 2

(***************************************************************************)
(* Generic helpers.                                                        *)
(***************************************************************************)
\* the set of elements of a sequence
Range(s) == {s[i] : i \in 1..Len(s)}

\* one message string: a fixed text, the names joined into it (Python joins
\* a set, so their order is not fixed and the model keeps the set), and the
\* line number it quotes (0 when it quotes none)
Msg(text, names, line) == [text |-> text, names |-> names, line |-> line]

\* outcome of a call: a returned value or a raised exception
Return(v) == [tag |-> "return", value |-> v, exc |-> "none"]
Raise(e, v) == [tag |-> "raise", value |-> v, exc |-> e]

\* Python's `sub in s` on the strings of this model's universe
StrContains(sub, s) ==
    \/ sub = s
    \/ <<sub, s>> \in { <<"crewai", "crewai.tools">>,
                        <<"http", "httplib2">>,
                        <<"json", "simplejson">>,
                        <<"json", "json.decoder">>,
                        <<"json", "ujson">>,
                        <<"csv", "csvkit">>,
                        <<"web", "webscraper">> }

\* Python's s.startswith('_') on the function names of this model's universe
StartsWithUnderscore(s) == s \in {"_run", "__init__", "_helper"}

(***************************************************************************)
(* Candidate texts as parsed by ast.parse.                                 *)
(*   parse      "tree": ast.parse returns the module tree;                 *)
(*              "SyntaxError": it raises SyntaxError(lineno, msg);         *)
(*              "RecursionError": it raises that exception (msg) while     *)
(*              building the tree of a very deeply nested expression       *)
(*   imports    the Import / ImportFrom statements                         *)
(*   classes    the ClassDef nodes in ast.walk order                       *)
(*   other      number of further top-level statements                     *)
(*   has_try    some ast.Try node exists                                   *)
(*   calls      the callees of the ast.Call nodes in ast.walk order: the   *)
(*              id of a func that is a Name ("eval"), the dotted text of   *)
(*              a func that is an Attribute ("builtins.eval")              *)
(*   shell      the text contains os.system / subprocess.call / .Popen     *)
(***************************************************************************)
ImpCrewai == [stmt |-> "from", module |-> "crewai.tools", names |-> {"BaseTool"}]
ImpPydantic == [stmt |-> "from", module |-> "pydantic", names |-> {"BaseModel", "Field"}]
ImpTyping == [stmt |-> "from", module |-> "typing", names |-> {"Any", "Type"}]
ImpOsSystem == [stmt |-> "import", module |-> "", names |-> {"os.system"}]

ImportVariants ==
    { {ImpCrewai, ImpPydantic, ImpTyping},
      {ImpCrewai},
      {ImpPydantic, ImpTyping},
      {ImpCrewai, ImpPydantic, ImpTyping, ImpOsSystem} }

Unparsable(l) ==
    [parse |-> "SyntaxError", lineno |-> l, msg |-> "invalid syntax",
     imports |-> {}, classes |-> <<>>, other |-> 0,
     has_try |-> FALSE, calls |-> <<>>, shell |-> FALSE]

\* a text such as `x = 1+1+...+1` with 200000 terms
TooDeep ==
    [parse |-> "RecursionError", lineno |-> 0,
     msg |-> "maximum recursion depth exceeded during ast construction",
     imports |-> {}, classes |-> <<>>, other |-> 0,
     has_try |-> FALSE, calls |-> <<>>, shell |-> FALSE]

Module(imports, classes, other, has_try, calls, shell) ==
    [parse |-> "tree", lineno |-> 0, msg |-> "",
     imports |-> imports, classes |-> classes, other |-> other,
     has_try |-> has_try, calls |-> calls, shell |-> shell]

\* a FunctionDef in a class body
Method(name, doc, returns, nargs) ==
    [name |-> name, doc |-> doc, returns |-> returns, nargs |-> nargs]

\* a ClassDef: bases that are plain Names, annotated and plain assignments to
\* Names in its body, its FunctionDefs, and whether it has a docstring
ClassDef(name, bases, ann, plain, methods, doc) ==
    [name |-> name, bases |-> bases, ann |-> ann, plain |-> plain,
     methods |-> methods, doc |-> doc]

SchemaClass ==
    ClassDef("SampleToolInputSchema", {"BaseModel"}, {"query"}, {}, {}, TRUE)

\* how the three contract attributes are declared in the tool class
AttrVariants ==
    { [ann |-> {"name", "description", "args_schema"}, plain |-> {}],
      [ann |-> {}, plain |-> {"name", "description", "args_schema"}],
      [ann |-> {"name", "description"}, plain |-> {"args_schema"}],
      [ann |-> {"name", "description"}, plain |-> {}],
      [ann |-> {"description", "args_schema"}, plain |-> {}],
      [ann |-> {}, plain |-> {}] }

\* class docstring / method docstrings
DocVariants ==
    { [cls |-> TRUE, meth |-> TRUE],
      [cls |-> TRUE, meth |-> FALSE],
      [cls |-> FALSE, meth |-> FALSE] }

ToolClass(base, attrs, mnames, docs, hints, nargs) ==
    ClassDef("SampleTool",
             IF base THEN {"BaseTool"} ELSE {"object"},
             attrs.ann, attrs.plain,
             { Method(m, docs.meth, hints, nargs) : m \in mnames },
             docs.cls)

ToolModule(imports, schema, base, attrs, mnames, docs, hints, nargs, has_try, calls, shell) ==
    Module(imports,
           (IF schema THEN <<SchemaClass>> ELSE <<>>)
               \o <<ToolClass(base, attrs, mnames, docs, hints, nargs)>>,
           0, has_try, calls, shell)

\* text with no statement at all (empty, blank or comment-only)
EmptyModule == Module({}, <<>>, 0, FALSE, <<>>, FALSE)
\* a single statement such as `x = 1`
OnlyStatement == Module({}, <<>>, 1, FALSE, <<>>, FALSE)

AllAnn == [ann |-> {"name", "description", "args_schema"}, plain |-> {}]
AllPlain == [ann |-> {}, plain |-> {"name", "description", "args_schema"}]
FullDocs == [cls |-> TRUE, meth |-> TRUE]
NoDocs == [cls |-> FALSE, meth |-> FALSE]
FullImports == {ImpCrewai, ImpPydantic, ImpTyping}

\* the exemplar of pattern_matcher.py's sample_code plus the public run()
PerfectTool ==
    ToolModule(FullImports, TRUE, TRUE, AllAnn, {"_run", "run"}, FullDocs,
               TRUE, 2, TRUE, <<>>, FALSE)

\* the exemplar with `builtins.eval(query)` in _run
QualifiedEval ==
    ToolModule(FullImports, TRUE, TRUE, AllAnn, {"_run", "run"}, FullDocs,
               TRUE, 2, TRUE, <<"builtins.eval">>, FALSE)

\* no schema class, a shell command, _run without parameters: both warnings
\* and the suggestion of the structural validator, no error
WarningsOnly ==
    ToolModule(FullImports, FALSE, TRUE, AllAnn, {"_run", "run"}, FullDocs,
               TRUE, 1, TRUE, <<>>, TRUE)

\* the exemplar followed by a second, empty class inheriting from BaseTool
TwoTools ==
    Module(FullImports,
           <<SchemaClass,
             ToolClass(TRUE, AllAnn, {"_run", "run"}, FullDocs, TRUE, 2),
             ClassDef("OtherTool", {"BaseTool"}, {}, {}, {}, TRUE)>>,
           0, TRUE, <<>>, FALSE)

\* the candidate universe the validators are checked on
Candidates ==
    { Unparsable(l) : l \in 1..MaxLine }
    \cup { TooDeep, EmptyModule, OnlyStatement, QualifiedEval, WarningsOnly,
           TwoTools,
           Module(FullImports, <<>>, 0, FALSE, <<>>, FALSE),
           Module(FullImports, <<SchemaClass>>, 0, FALSE, <<>>, FALSE),
           ToolModule(FullImports, TRUE, TRUE, AllAnn, {"_run", "run"},
                      FullDocs, TRUE, 1, TRUE, <<>>, FALSE),
           ToolModule(FullImports, TRUE, TRUE, AllAnn, {"_run", "run"},
                      FullDocs, TRUE, 2, TRUE, <<>>, TRUE),
           ToolModule(FullImports, TRUE, TRUE, AllAnn, {"_run", "run"},
                      FullDocs, TRUE, 2, TRUE, <<"eval", "compile">>, FALSE) }
    \cup { ToolModule(i, s, b, a, m, d, h, 2, t, c, FALSE) :
             i \in ImportVariants, s \in BOOLEAN, b \in BOOLEAN,
             a \in AttrVariants, m \in SUBSET {"_run", "run"},
             d \in DocVariants, h \in BOOLEAN, t \in BOOLEAN,
             c \in {<<>>, <<"exec">>} }

(***************************************************************************)
(* Structural validator, crewai_validator.py.                              *)
(***************************************************************************)
FORBIDDEN_IMPORTS == <<"os.system", "subprocess.Popen", "eval", "exec", "__import__">>
REQUIRED_ATTRIBUTES == {"name", "description", "args_schema"}
REQUIRED_METHODS == {"_run", "run"}
dangerous_functions == {"eval", "exec", "__import__", "compile"}

ValidationResult(is_valid, errors, warnings, suggestions) ==
    [is_valid |-> is_valid, errors |-> errors, warnings |-> warnings,
     suggestions |-> suggestions]

\* only SyntaxError is caught here
Validator_check_syntax(code) ==
    IF code.parse = "SyntaxError"
    THEN << Msg("Syntax error at line", {code.msg}, code.lineno) >>
    ELSE <<>>

\* alias names of `import` statements and modules of `from` statements
Validator_imports(tree) ==
    UNION { IF i.stmt = "import" THEN i.names
            ELSE IF i.module # "" THEN {i.module} ELSE {} : i \in tree.imports }

ForbiddenError(f) == Msg("Forbidden import detected", {f}, 0)

\* returns <<errors, warnings>>.  FORBIDDEN_IMPORTS is a Python set, iterated
\* in no fixed order; the universe has no candidate matching two entries.
Validator_check_imports(tree) ==
    LET imports == Validator_imports(tree)
        hit(f) == \E imp \in imports : StrContains(f, imp)
        forbidden == [i \in 1..Len(SelectSeq(FORBIDDEN_IMPORTS, hit)) |-> ForbiddenError((SelectSeq(FORBIDDEN_IMPORTS, hit))[i])]
        required ==
            IF ~ \E imp \in imports :
                   StrContains("BaseTool", imp) \/ StrContains("crewai", imp)
            THEN << Msg("Missing required import: crewai.tools.BaseTool", {}, 0) >>
            ELSE <<>>
    IN  << forbidden \o required, <<>> >>

InheritsName(cls, base) == base \in cls.bases

\* index of the first class inheriting from BaseTool, 0 if there is none
FindToolClass(classes) ==
    IF \E i \in 1..Len(classes) : InheritsName(classes[i], "BaseTool")
    THEN CHOOSE i \in 1..Len(classes) :
            /\ InheritsName(classes[i], "BaseTool")
            /\ \A j \in 1..(i - 1) : ~InheritsName(classes[j], "BaseTool")
    ELSE 0

\* returns <<errors, warnings, suggestions>>
Validator_check_class_structure(tree) ==
    IF tree.classes = <<>>
    THEN << << Msg("No class definition found", {}, 0) >>, <<>>, <<>> >>
    ELSE IF FindToolClass(tree.classes) = 0
    THEN << << Msg("No class inheriting from BaseTool found", {}, 0) >>, <<>>, <<>> >>
    ELSE IF ~ \E i \in 1..Len(tree.classes) : InheritsName(tree.classes[i], "BaseModel")
    THEN << <<>>,
            << Msg("No input schema class (BaseModel) found - tool may not have structured inputs", {}, 0) >>,
            <<>> >>
    ELSE << <<>>, <<>>, <<>> >>

DangerousError(f) == Msg("Dangerous function call detected", {f}, 0)
IsDangerous(f) == f \in dangerous_functions

\* returns <<errors, warnings>>; a call counts when its func is a Name
Validator_check_security(tree) ==
    << [i \in 1..Len(SelectSeq(tree.calls, IsDangerous)) |-> DangerousError((SelectSeq(tree.calls, IsDangerous))[i])],
       IF tree.shell
       THEN << Msg("Shell command execution detected - ensure proper input sanitization", {}, 0) >>
       ELSE <<>> >>

\* mutant: only the first missing attribute and the first missing method
\* are named
Validator_check_basetool_complianceFirstOnly(tree) ==
    LET k == FindToolClass(tree.classes) IN
    IF k = 0 THEN << <<>>, <<>> >>
    ELSE
      LET tool_class == tree.classes[k]
          class_attrs == tool_class.ann \cup tool_class.plain
          methods == { m.name : m \in tool_class.methods }
          missing_attrs == REQUIRED_ATTRIBUTES \ class_attrs
          missing_methods == REQUIRED_METHODS \ methods
          run_short == \E m \in tool_class.methods : m.name = "_run" /\ m.nargs < 2
      IN << (IF missing_attrs # {}
             THEN << Msg("Missing required attributes",
                         {CHOOSE a \in missing_attrs : TRUE}, 0) >>
             ELSE <<>>)
            \o (IF missing_methods # {}
                THEN << Msg("Missing required methods",
                            {CHOOSE m \in missing_methods : TRUE}, 0) >>
                ELSE <<>>),
            IF run_short
            THEN << Msg("_run method should accept input parameters", {}, 0) >>
            ELSE <<>> >>

\* returns <<errors, suggestions>>
Validator_check_basetool_compliance(tree) ==
    LET k == FindToolClass(tree.classes) IN
    IF k = 0 THEN << <<>>, <<>> >>
    ELSE
      LET tool_class == tree.classes[k]
          class_attrs == tool_class.ann \cup tool_class.plain
          methods == { m.name : m \in tool_class.methods }
          missing_attrs == REQUIRED_ATTRIBUTES \ class_attrs
          missing_methods == REQUIRED_METHODS \ methods
          run_short == \E m \in tool_class.methods : m.name = "_run" /\ m.nargs < 2
      IN << (IF missing_attrs # {}
             THEN << Msg("Missing required attributes", missing_attrs, 0) >>
             ELSE <<>>)
            \o (IF missing_methods # {}
                THEN << Msg("Missing required methods", missing_methods, 0) >>
                ELSE <<>>),
            IF run_short
            THEN << Msg("_run method should accept input parameters", {}, 0) >>
            ELSE <<>> >>

\* mutant: a warning makes the candidate invalid
Validator_validateWarningsBlock(code) ==
    LET syntax_errors == Validator_check_syntax(code) IN
    IF code.parse \notin {"tree", "SyntaxError"}
    THEN ValidationResult(FALSE, << Msg("Validation error", {code.msg}, 0) >>,
                          <<>>, <<>>)
    ELSE IF syntax_errors # <<>>
    THEN ValidationResult(FALSE, syntax_errors, <<>>,
                          << Msg("Fix syntax errors before proceeding", {}, 0) >>)
    ELSE
      LET imp == Validator_check_imports(code)
          cls == Validator_check_class_structure(code)
          sec == Validator_check_security(code)
          bt == Validator_check_basetool_compliance(code)
          errors == imp[1] \o cls[1] \o sec[1] \o bt[1]
          warnings == imp[2] \o cls[2] \o sec[2]
          suggestions == cls[3] \o bt[2]
      IN ValidationResult(Len(errors) = 0 /\ Len(warnings) = 0, errors, warnings,
                          suggestions)

\* mutant: every step short-circuits the next: the first step that reports
\* an error ends the validation
Validator_validateShortCircuit(code) ==
    LET syntax_errors == Validator_check_syntax(code) IN
    IF code.parse \notin {"tree", "SyntaxError"}
    THEN ValidationResult(FALSE, << Msg("Validation error", {code.msg}, 0) >>,
                          <<>>, <<>>)
    ELSE IF syntax_errors # <<>>
    THEN ValidationResult(FALSE, syntax_errors, <<>>,
                          << Msg("Fix syntax errors before proceeding", {}, 0) >>)
    ELSE
      LET imp == Validator_check_imports(code)
          cls == Validator_check_class_structure(code)
          sec == Validator_check_security(code)
          bt == Validator_check_basetool_compliance(code)
      IN  IF imp[1] # <<>> THEN ValidationResult(FALSE, imp[1], imp[2], <<>>)
          ELSE IF cls[1] # <<>>
          THEN ValidationResult(FALSE, cls[1], imp[2] \o cls[2], cls[3])
          ELSE IF sec[1] # <<>>
          THEN ValidationResult(FALSE, sec[1], imp[2] \o cls[2] \o sec[2], cls[3])
          ELSE ValidationResult(Len(bt[1]) = 0, bt[1],
                                imp[2] \o cls[2] \o sec[2], cls[3] \o bt[2])

\* CrewAIToolValidator.validate.  An exception of ast.parse other than
\* SyntaxError leaves _check_syntax and is caught by `except Exception`; no
\* check raises on a parsed tree.
Validator_validate(code) ==
    LET syntax_errors == Validator_check_syntax(code) IN
    IF code.parse \notin {"tree", "SyntaxError"}
    THEN ValidationResult(FALSE, << Msg("Validation error", {code.msg}, 0) >>,
                          <<>>, <<>>)
    ELSE IF syntax_errors # <<>>
    THEN ValidationResult(FALSE, syntax_errors, <<>>,
                          << Msg("Fix syntax errors before proceeding", {}, 0) >>)
    ELSE
      LET imp == Validator_check_imports(code)
          cls == Validator_check_class_structure(code)
          sec == Validator_check_security(code)
          bt == Validator_check_basetool_compliance(code)
          errors == imp[1] \o cls[1] \o sec[1] \o bt[1]
          warnings == imp[2] \o cls[2] \o sec[2]
          suggestions == cls[3] \o bt[2]
      IN ValidationResult(Len(errors) = 0, errors, warnings, suggestions)

(***************************************************************************)
(* Pattern scorer, pattern_matcher.py.                                     *)
(***************************************************************************)
required_imports == {"BaseTool", "BaseModel", "Field"}
required_attributes == {"name", "description", "args_schema"}

PatternMatchResult(matches_pattern, pattern_score, has_base_tool, has_args_schema, has_run_method, has_docstrings, has_error_handling, issues, suggestions, best_practices, warnings) ==
    [matches_pattern |-> matches_pattern, pattern_score |-> pattern_score,
     has_base_tool |-> has_base_tool, has_args_schema |-> has_args_schema,
     has_run_method |-> has_run_method, has_docstrings |-> has_docstrings,
     has_error_handling |-> has_error_handling,
     issues |-> issues, suggestions |-> suggestions,
     best_practices |-> best_practices, warnings |-> warnings]

PatternMatcher_check_base_tool_inheritance(tree) ==
    \E i \in 1..Len(tree.classes) : InheritsName(tree.classes[i], "BaseTool")

\* only an annotated assignment counts
PatternMatcher_check_args_schema(tree) ==
    \E i \in 1..Len(tree.classes) : "args_schema" \in tree.classes[i].ann

PatternMatcher_check_run_method(tree) ==
    \E i \in 1..Len(tree.classes) :
        \E m \in tree.classes[i].methods : m.name = "_run"

\* number of statements in tree.body
BodyLen(tree) == Cardinality(tree.imports) + Len(tree.classes) + tree.other

\* tree.body[0] is read before any other test: IndexError on an empty body
PatternMatcher_check_docstrings(tree) ==
    IF BodyLen(tree) = 0 THEN Raise("IndexError", FALSE)
    ELSE
      LET has_class_docstring ==
              \E i \in 1..Len(tree.classes) : tree.classes[i].doc
          has_method_docstring ==
              \E i \in 1..Len(tree.classes) :
                  \E m \in tree.classes[i].methods : m.doc
      IN Return(has_class_docstring /\ has_method_docstring)

PatternMatcher_check_error_handling(tree) == tree.has_try

PatternMatcher_imported_names(tree) == UNION { i.names : i \in tree.imports }

\* returns <<imports_valid, issues>>
PatternMatcher_check_imports(tree) ==
    LET missing == required_imports \ PatternMatcher_imported_names(tree) IN
    IF missing # {}
    THEN << FALSE, << Msg("Missing required imports", missing, 0) >> >>
    ELSE << TRUE, <<>> >>

\* returns <<type_hints_valid, suggestions>>
PatternMatcher_check_type_hints(tree) ==
    LET functions_without_hints ==
            { m.name : m \in
                { m \in UNION { tree.classes[i].methods : i \in 1..Len(tree.classes) } :
                    /\ ~(StartsWithUnderscore(m.name) /\ m.name # "_run")
                    /\ ~m.returns } }
    IN IF functions_without_hints # {}
       THEN << FALSE, << Msg("Consider adding type hints to", functions_without_hints, 0) >> >>
       ELSE << TRUE, <<>> >>

\* returns <<attrs_valid, issues>>; only annotated assignments of classes
\* inheriting from BaseTool count
PatternMatcher_check_required_attributes(tree) ==
    LET found_attributes ==
            UNION { tree.classes[i].ann :
                      i \in { j \in 1..Len(tree.classes) :
                                InheritsName(tree.classes[j], "BaseTool") } }
        missing == required_attributes \ found_attributes
    IN IF missing # {}
       THEN << FALSE, << Msg("Missing required attributes", missing, 0) >> >>
       ELSE << TRUE, <<>> >>

\* mutant: the weights of args_schema and docstrings exchanged
PatternMatcher_calculate_pattern_scoreSwapped(checks) ==
      (IF checks.has_base_tool THEN 25 ELSE 0)
    + (IF checks.has_run_method THEN 25 ELSE 0)
    + (IF checks.has_args_schema THEN 10 ELSE 0)
    + (IF checks.has_docstrings THEN 15 ELSE 0)
    + (IF checks.has_error_handling THEN 10 ELSE 0)
    + (IF checks.imports_valid THEN 5 ELSE 0)
    + (IF checks.type_hints_valid THEN 5 ELSE 0)
    + (IF checks.attrs_valid THEN 5 ELSE 0)

PatternMatcher_calculate_pattern_score(checks) ==
      (IF checks.has_base_tool THEN 25 ELSE 0)
    + (IF checks.has_run_method THEN 25 ELSE 0)
    + (IF checks.has_args_schema THEN 15 ELSE 0)
    + (IF checks.has_docstrings THEN 10 ELSE 0)
    + (IF checks.has_error_handling THEN 10 ELSE 0)
    + (IF checks.imports_valid THEN 5 ELSE 0)
    + (IF checks.type_hints_valid THEN 5 ELSE 0)
    + (IF checks.attrs_valid THEN 5 ELSE 0)

PatternMatcher_get_improvement_suggestions(checks) ==
       (IF ~checks.has_base_tool
        THEN << Msg("Inherit from BaseTool class", {}, 0) >> ELSE <<>>)
    \o (IF ~checks.has_run_method
        THEN << Msg("Implement _run() method", {}, 0) >> ELSE <<>>)
    \o (IF ~checks.has_args_schema
        THEN << Msg("Define args_schema with Pydantic BaseModel", {}, 0) >> ELSE <<>>)
    \o (IF ~checks.has_docstrings
        THEN << Msg("Add comprehensive docstrings to class and methods", {}, 0) >> ELSE <<>>)
    \o (IF ~checks.has_error_handling
        THEN << Msg("Add try/except error handling in _run() method", {}, 0) >> ELSE <<>>)

PatternMatcher_identify_best_practices(checks) ==
       (IF checks.has_base_tool
        THEN << Msg("Inherits from BaseTool (official pattern)", {}, 0) >> ELSE <<>>)
    \o (IF checks.has_args_schema
        THEN << Msg("Defines args_schema with Pydantic validation", {}, 0) >> ELSE <<>>)
    \o (IF checks.has_run_method
        THEN << Msg("Implements _run() method (required)", {}, 0) >> ELSE <<>>)
    \o (IF checks.has_docstrings
        THEN << Msg("Includes comprehensive docstrings", {}, 0) >> ELSE <<>>)
    \o (IF checks.has_error_handling
        THEN << Msg("Includes error handling (robust)", {}, 0) >> ELSE <<>>)

\* mutant: the two load-bearing signals joined with `or`
MatchesPatternOr(pattern_score, has_base_tool, has_run_method) ==
    pattern_score >= 80 \/ (has_base_tool /\ has_run_method)

\* the matches_pattern decision of analyze
MatchesPattern(pattern_score, has_base_tool, has_run_method) ==
    pattern_score >= 80 /\ has_base_tool /\ has_run_method

\* PatternMatcher.analyze: Return(PatternMatchResult) or Raise(exception)
PatternMatcher_analyze(code) ==
    IF code.parse \notin {"tree", "SyntaxError"} THEN Raise(code.parse, FALSE)
    ELSE IF code.parse = "SyntaxError"
    THEN Return(PatternMatchResult(FALSE, 0, FALSE, FALSE, FALSE, FALSE, FALSE,
                    << Msg("Syntax error", {code.msg}, code.lineno) >>,
                    << Msg("Fix syntax errors before validation", {}, 0) >>,
                    <<>>, <<>>))
    ELSE
      LET has_base_tool == PatternMatcher_check_base_tool_inheritance(code)
          has_args_schema == PatternMatcher_check_args_schema(code)
          has_run_method == PatternMatcher_check_run_method(code)
          docstrings == PatternMatcher_check_docstrings(code)
      IN IF docstrings.tag = "raise" THEN Raise(docstrings.exc, FALSE)
         ELSE
           LET has_docstrings == docstrings.value
               has_error_handling == PatternMatcher_check_error_handling(code)
               imp == PatternMatcher_check_imports(code)
               hints == PatternMatcher_check_type_hints(code)
               attrs == PatternMatcher_check_required_attributes(code)
               checks == [has_base_tool |-> has_base_tool,
                          has_args_schema |-> has_args_schema,
                          has_run_method |-> has_run_method,
                          has_docstrings |-> has_docstrings,
                          has_error_handling |-> has_error_handling,
                          imports_valid |-> imp[1],
                          type_hints_valid |-> hints[1],
                          attrs_valid |-> attrs[1]]
               pattern_score == PatternMatcher_calculate_pattern_score(checks)
               matches_pattern ==
                   MatchesPattern(pattern_score, has_base_tool, has_run_method)
               issues == imp[2] \o attrs[2]
               suggestions ==
                   hints[2] \o (IF pattern_score < 100
                                THEN PatternMatcher_get_improvement_suggestions(checks)
                                ELSE <<>>)
               best_practices == PatternMatcher_identify_best_practices(checks)
               warnings ==
                      (IF ~has_error_handling
                       THEN << Msg("No error handling detected - tool may fail ungracefully", {}, 0) >>
                       ELSE <<>>)
                   \o (IF ~has_docstrings
                       THEN << Msg("Missing docstrings - reduces code maintainability", {}, 0) >>
                       ELSE <<>>)
           IN Return(PatternMatchResult(matches_pattern, pattern_score,
                        has_base_tool, has_args_schema, has_run_method,
                        has_docstrings, has_error_handling,
                        issues, suggestions, best_practices, warnings))

(***************************************************************************)
(* Validation gate, CrewAIToolGenerator.validate_tool.                     *)
(***************************************************************************)
\* mutant: the threshold of matches_pattern taken for the gate
GateIsValid80(ast_is_valid, pattern_score) == ast_is_valid /\ pattern_score >= 80

\* mutant: the two verdicts joined with `or`
GateIsValidOr(ast_is_valid, pattern_score) ==
    ast_is_valid \/ pattern_score >= 70

\* the acceptance decision of validate_tool
GateIsValid(ast_is_valid, pattern_score) ==
    ast_is_valid /\ pattern_score >= 70

\* Return(ValidationResult), or the exception analyze raised: validate_tool
\* has no handler around the two calls
validate_tool(code) ==
    LET ast_validation == Validator_validate(code)
        analysis == PatternMatcher_analyze(code)
    IN IF analysis.tag = "raise" THEN Raise(analysis.exc, FALSE)
       ELSE
         LET pattern_result == analysis.value IN
         Return(ValidationResult(
             GateIsValid(ast_validation.is_valid, pattern_result.pattern_score),
             ast_validation.errors \o pattern_result.issues,
             ast_validation.warnings \o pattern_result.warnings,
             ast_validation.suggestions \o pattern_result.suggestions))

(***************************************************************************)
(* Dependency classifier, supported_libraries.py and                       *)
(* dependency_validator.py.  The two registries are restricted to the      *)
(* names the model's dependency lists can mention.                         *)
(***************************************************************************)
\* the dependency names of the model: registry members, a submodule that is
\* no member, other spellings of members, keys of the alternatives table,
\* names the substring heuristics match, and an unknown name
DepNames ==
    {"json", "os.path", "json.decoder", "JSON", "requests", "Requests",
     "pandas", "polars", "Polars", "simplejson", "ujson", "httplib2",
     "webscraper", "csvkit", "fake_lib"}

STDLIB_MODULES == {"json", "os", "os.path", "csv", "http", "urllib", "typing"}
SUPPORTED_LIBRARIES == {"requests", "pandas", "httpx", "orjson", "urllib3"}

\* the two module globals of supported_libraries.py; the functions below read
\* them at the time of the call
VARIABLES
    stdlib_modules,        \* the set object bound to STDLIB_MODULES
    supported_libraries    \* the keys of the dict bound to SUPPORTED_LIBRARIES

\* the module has been imported: both globals hold their literals
RegistriesLoaded ==
    /\ stdlib_modules = STDLIB_MODULES
    /\ supported_libraries = SUPPORTED_LIBRARIES

\* str.lower() on the names of the universe
Lower(name) ==
    CASE name = "Requests" -> "requests"
      [] name = "JSON" -> "json"
      [] name = "Polars" -> "polars"
      [] OTHER -> name

\* name.split('.')[0] on the names of the universe
BaseModule(name) ==
    CASE name = "os.path" -> "os"
      [] name = "json.decoder" -> "json"
      [] OTHER -> name

\* mutant: the whole name looked up, submodules not handled
is_stdlibWholeName(library_name) == library_name \in stdlib_modules

is_stdlib(library_name) == BaseModule(library_name) \in stdlib_modules

\* mutant: the approved names compared as spelled
is_supportedCaseSensitive(library_name) ==
    \/ is_stdlib(library_name)
    \/ \E lib \in supported_libraries : lib = library_name

is_supported(library_name) ==
    \/ is_stdlib(library_name)
    \/ \E lib \in supported_libraries : Lower(lib) = Lower(library_name)

ALTERNATIVES_MAP ==
    [lib \in {"urllib2", "urllib3", "polars", "simplejson", "ujson", "arrow",
              "pendulum", "scrapy", "pymongo", "redis", "default"} |->
       CASE lib = "urllib2" -> <<"urllib.request (stdlib)", "requests">>
         [] lib = "urllib3" -> <<"urllib.request (stdlib)", "httpx">>
         [] lib = "polars" -> <<"pandas">>
         [] lib \in {"simplejson", "ujson"} -> <<"json (stdlib)", "orjson">>
         [] lib \in {"arrow", "pendulum"} -> <<"datetime (stdlib)", "python-dateutil">>
         [] lib = "scrapy" -> <<"beautifulsoup4", "lxml">>
         [] lib \in {"pymongo", "redis"} -> <<"Use REST API with requests">>
         [] OTHER -> <<"Implement manually using Python stdlib">>]

\* mutant: the table is not consulted
get_alternativesNoTable(library_name) ==
    LET low == Lower(library_name)
        alternatives == ALTERNATIVES_MAP["default"]
    IN IF StrContains("http", low) \/ StrContains("web", low)
       THEN <<"requests", "httpx", "urllib.request (stdlib)">>
       ELSE IF StrContains("json", low) THEN <<"json (stdlib)", "orjson">>
       ELSE IF StrContains("csv", low) THEN <<"csv (stdlib)", "pandas">>
       ELSE alternatives

get_alternatives(library_name) ==
    LET low == Lower(library_name)
        alternatives == IF low \in DOMAIN ALTERNATIVES_MAP
                        THEN ALTERNATIVES_MAP[low]
                        ELSE ALTERNATIVES_MAP["default"]
    IN IF StrContains("http", low) \/ StrContains("web", low)
       THEN <<"requests", "httpx", "urllib.request (stdlib)">>
       ELSE IF StrContains("json", low) THEN <<"json (stdlib)", "orjson">>
       ELSE IF StrContains("csv", low) THEN <<"csv (stdlib)", "pandas">>
       ELSE alternatives

\* the lists keep the input order and every occurrence of a name
validate_dependencies(dependencies) ==
    LET IsStd(d) == is_stdlib(d)
        IsExt(d) == ~is_stdlib(d) /\ is_supported(d)
        IsSup(d) == is_stdlib(d) \/ is_supported(d)
        IsUnsup(d) == ~is_stdlib(d) /\ ~is_supported(d)
        unsupported == SelectSeq(dependencies, IsUnsup)
    IN [all_supported |-> Len(unsupported) = 0,
        supported |-> SelectSeq(dependencies, IsSup),
        unsupported |-> unsupported,
        stdlib |-> SelectSeq(dependencies, IsStd),
        external |-> SelectSeq(dependencies, IsExt),
        alternatives |-> [d \in Range(unsupported) |-> get_alternatives(d)]]

special_attention_libs ==
    {"crewai", "crewai-tools", "anthropic", "openai", "chromadb", "pandas", "numpy"}
stdlib_replacements ==
    {"requests", "httpx", "beautifulsoup4", "ujson", "simplejson", "arrow",
     "pendulum", "python-dateutil"}

PerformanceTip(dep) == Msg("Performance tip: could be replaced with stdlib", {dep}, 0)
InReplacements(dep) == dep \in stdlib_replacements

DependencyValidator_suggest_stdlib_alternatives(external_deps) ==
    [i \in 1..Len(SelectSeq(external_deps, InReplacements)) |-> PerformanceTip((SelectSeq(external_deps, InReplacements))[i])]

RECURSIVE UnsupportedSuggestions(_, _, _)
\* the suggestions appended in the loop over base_result['unsupported']
UnsupportedSuggestions(unsupported, alternatives, suggest_manual) ==
    IF unsupported = <<>> THEN <<>>
    ELSE
      LET dep == Head(unsupported) IN
         (IF alternatives[dep] # <<>>
          THEN << Msg("Consider using", Range(alternatives[dep]), 0) >>
          ELSE <<>>)
      \o (IF suggest_manual
          THEN << Msg("Manual implementation recommended using Python stdlib", {dep}, 0) >>
          ELSE <<>>)
      \o UnsupportedSuggestions(Tail(unsupported), alternatives, suggest_manual)

NotAvailable(dep) == Msg("is not available in CrewAI-Studio environment", {dep}, 0)
SpecialNote(dep) == Msg("special attention", {dep}, 0)
IsSpecial(dep) == dep \in special_attention_libs

\* mutant: can_proceed cleared by any unsupported name, whatever the mode
DependencyValidator_validateBlocksAlways(dependencies, strict, suggest_manual) ==
    LET base_result == validate_dependencies(dependencies)
        has_unsupported == base_result.unsupported # <<>>
        warnings ==
            IF has_unsupported
            THEN [i \in 1..Len(base_result.unsupported) |-> NotAvailable((base_result.unsupported)[i])]
                 \o (IF strict
                     THEN << Msg("Strict mode: Cannot proceed with unsupported dependencies", {}, 0) >>
                     ELSE <<>>)
            ELSE <<>>
        suggestions ==
               (IF has_unsupported
                THEN UnsupportedSuggestions(base_result.unsupported,
                                            base_result.alternatives, suggest_manual)
                ELSE <<>>)
            \o [i \in 1..Len(SelectSeq(base_result.supported, IsSpecial)) |-> SpecialNote((SelectSeq(base_result.supported, IsSpecial))[i])]
            \o DependencyValidator_suggest_stdlib_alternatives(base_result.external)
    IN [all_supported |-> base_result.all_supported,
        supported |-> base_result.supported,
        unsupported |-> base_result.unsupported,
        stdlib |-> base_result.stdlib,
        external |-> base_result.external,
        alternatives |-> base_result.alternatives,
        manual_implementation_needed |-> has_unsupported,
        warnings |-> warnings,
        suggestions |-> suggestions,
        can_proceed |-> ~has_unsupported,
        severity |-> IF ~has_unsupported THEN "success"
                     ELSE IF ~strict THEN "warning" ELSE "error"]

\* DependencyValidator.validate
DependencyValidator_validate(dependencies, strict, suggest_manual) ==
    LET base_result == validate_dependencies(dependencies)
        has_unsupported == base_result.unsupported # <<>>
        warnings ==
            IF has_unsupported
            THEN [i \in 1..Len(base_result.unsupported) |-> NotAvailable((base_result.unsupported)[i])]
                 \o (IF strict
                     THEN << Msg("Strict mode: Cannot proceed with unsupported dependencies", {}, 0) >>
                     ELSE <<>>)
            ELSE <<>>
        suggestions ==
               (IF has_unsupported
                THEN UnsupportedSuggestions(base_result.unsupported,
                                            base_result.alternatives, suggest_manual)
                ELSE <<>>)
            \o [i \in 1..Len(SelectSeq(base_result.supported, IsSpecial)) |-> SpecialNote((SelectSeq(base_result.supported, IsSpecial))[i])]
            \o DependencyValidator_suggest_stdlib_alternatives(base_result.external)
    IN [all_supported |-> base_result.all_supported,
        supported |-> base_result.supported,
        unsupported |-> base_result.unsupported,
        stdlib |-> base_result.stdlib,
        external |-> base_result.external,
        alternatives |-> base_result.alternatives,
        manual_implementation_needed |-> has_unsupported,
        warnings |-> warnings,
        suggestions |-> suggestions,
        can_proceed |-> ~(has_unsupported /\ strict),
        severity |-> IF ~has_unsupported THEN "success"
                     ELSE IF ~strict THEN "warning" ELSE "error"]

(***************************************************************************)
(* Orchestrator, CrewAIToolGenerator.generate_tool.                        *)
(*                                                                         *)
(* An optional value (Python None or a value) is a sequence of length at   *)
(* most one.                                                               *)
(***************************************************************************)
None == <<>>
Some(v) == <<v>>

VARIABLES
    pc,                    \* position of the request, see below
    max_retries,           \* self.max_retries, set by the constructor
    request,               \* the request: spec.dependencies, and the mode the caller
                           \* wants (ToolSpec and generate_tool have no field for it)
    dependency_validation, \* result of self.dependency_validator.validate
    rag_context,           \* results of _retrieve_similar_components
    attempt,               \* the loop counter
    generated_code,        \* optional candidate
    previous_errors,       \* optional error list handed to the last generator call
    ast_validation,        \* validate_tool's local, optional
    analysis,              \* outcome of pattern_matcher.analyze in validate_tool
    validation_result,     \* optional ValidationResult of the gate
    storage,               \* files written under /app/data/generated_tools
    result,                \* outcome of the request or of the unit call
    invocations,           \* number of generator invocations of the request
    validations,           \* number of gate results of the request
    candidates_seen,       \* candidates the generator returned in the request
    checks,                \* optional argument of a call of _calculate_pattern_score
    pattern_score,         \* optional value that call returned
    classification,        \* optional result of a call of validate_dependencies
    classified             \* the classifier calls made so far and their results

\* the state only the calls of single functions use
unit_vars == <<checks, pattern_score, classification, classified>>

registries == <<stdlib_modules, supported_libraries>>

vars == <<pc, max_retries, request, dependency_validation, rag_context, attempt,
          generated_code, previous_errors, ast_validation, analysis,
          validation_result, storage, result, invocations, validations,
          candidates_seen, checks, pattern_score, classification, classified,
          stdlib_modules, supported_libraries>>

\* no single function has been called
NoUnitCall ==
    /\ checks = None
    /\ pattern_score = None
    /\ classification = None
    /\ classified = <<>>

\* pc: "idle"        no request yet
\*     "loop"        while-condition held, generator about to be invoked
\*     "validating"  candidate returned, gate about to run
\*     "finish"      loop left, artifact about to be assembled
\*     "returned"    generate_tool returned the artifact
\*     "raised"      generate_tool raised

NoOutcome == [tag |-> "none", value |-> FALSE, exc |-> "none"]
NoResult == [tag |-> "none", exc |-> "none", unsupported |-> <<>>, tool |-> None]

\* structurally valid, pattern score 70
Valid70 ==
    ToolModule({ImpCrewai}, FALSE, TRUE, AllAnn, {"_run", "run"}, NoDocs,
               FALSE, 2, FALSE, <<>>, FALSE)
\* structurally valid, pattern score 60
StructValidLow ==
    ToolModule(FullImports, TRUE, TRUE, AllPlain, {"_run", "run"}, NoDocs,
               TRUE, 2, FALSE, <<>>, FALSE)
\* pattern score 100, public run() missing
MissingRun ==
    ToolModule(FullImports, TRUE, TRUE, AllAnn, {"_run"}, FullDocs,
               TRUE, 2, TRUE, <<>>, FALSE)

Unparsables == { Unparsable(l) : l \in 1..MaxLine }

\* the texts the generator returns in the orchestrator runs
GeneratorOutputs ==
    Unparsables \cup {EmptyModule, PerfectTool, Valid70, StructValidLow, MissingRun}

OrchDepNames == {"json", "requests", "fake_lib"}

RECURSIVE SeqsUpTo(_, _)
\* sequences over S of length at most n
SeqsUpTo(S, n) ==
    IF n = 0 THEN {<<>>}
    ELSE SeqsUpTo(S, n - 1)
         \cup { Append(q, x) : q \in { r \in SeqsUpTo(S, n - 1) : Len(r) = n - 1 }, x \in S }

\* what the retrieval service does when asked: no URL is configured, the
\* request raises (connection, timeout, bad JSON), it answers with a status
\* other than 200, or it answers 200 with its data
RetrievalOutcomes == {"unconfigured", "raises", "status_500", "status_200"}

NoRetrieval == [service |-> "none", results |-> <<>>]

\* _retrieve_similar_components: the data of a 200 answer, else no results
_retrieve_similar_components(outcome) ==
    [service |-> outcome,
     results |-> IF outcome = "status_200" THEN <<"SimilarTool">> ELSE <<>>]

RagOutcomes == { _retrieve_similar_components(o) : o \in RetrievalOutcomes }

\* the while condition of the loop
LoopCondition(a, mr) == a <= mr

\* mutant: the budget is never looked at
AfterValidationNoBudget(is_valid, a, mr) ==
    IF is_valid THEN "finish" ELSE "loop"

\* mutant: the budget is taken as exhausted one attempt early
AfterValidationEarly(is_valid, a, mr) ==
    IF is_valid THEN "finish"
    ELSE IF a >= mr THEN "finish"
    ELSE "loop"

\* mutant: no break on acceptance
AfterValidationNoBreak(is_valid, a, mr) ==
    IF a > mr THEN "finish" ELSE "loop"

\* where the loop goes after a gate result: break on acceptance, break on an
\* exhausted budget, else the while condition decides
AfterValidation(is_valid, a, mr) ==
    IF is_valid THEN "finish"
    ELSE IF a > mr THEN "finish"
    ELSE IF LoopCondition(a, mr) THEN "loop" ELSE "finish"

\* mutant: the feedback is dropped
PreviousErrorsDropped(vr) == None

\* previous_errors=validation_result.errors if validation_result else None
PreviousErrors(vr) == IF vr = None THEN None ELSE Some(vr[1].errors)

_generate_documentation(deps, code) == [install |-> <<"crewai">> \o deps]

DeploymentInstructions(deps, dv) ==
    [dependencies |-> deps,
     install_command |-> IF deps # <<>> THEN Some(deps) ELSE None,
     dependency_validation |-> dv,
     warnings |-> IF dv.unsupported # <<>> THEN Some(dv.warnings) ELSE None]

GeneratedTool(code, deps, validation, documentation, deployment_instructions) ==
    [tool_code |-> code, dependencies |-> deps, validation |-> validation,
     documentation |-> documentation,
     deployment_instructions |-> deployment_instructions]

Init ==
    /\ RegistriesLoaded
    /\ NoUnitCall
    /\ pc = "idle"
    /\ max_retries \in 0..MaxRetriesBound
    /\ request = [dependencies |-> <<>>, strict |-> FALSE]
    /\ dependency_validation = DependencyValidator_validate(<<>>, FALSE, TRUE)
    /\ rag_context = NoRetrieval
    /\ attempt = 0
    /\ generated_code = None
    /\ previous_errors = None
    /\ ast_validation = None
    /\ analysis = NoOutcome
    /\ validation_result = None
    /\ storage = {}
    /\ result = NoResult
    /\ invocations = 0
    /\ validations = 0
    /\ candidates_seen = {}

\* generate_tool up to the loop: dependency validation (called without
\* `strict`, so with its default False), the can_proceed test, retrieval
GenerateToolStart(deps, strict) ==
    /\ pc = "idle"
    /\ request' = [dependencies |-> deps, strict |-> strict]
    /\ LET dv == DependencyValidator_validate(deps, FALSE, TRUE) IN
       /\ dependency_validation' = dv
       /\ IF ~dv.can_proceed
          THEN /\ pc' = "raised"
               /\ result' = [tag |-> "raise", exc |-> "ValueError",
                             unsupported |-> dv.unsupported, tool |-> None]
               /\ UNCHANGED rag_context
          ELSE /\ pc' = IF LoopCondition(0, max_retries) THEN "loop" ELSE "finish"
               /\ rag_context' \in RagOutcomes
               /\ UNCHANGED result
    /\ attempt' = 0
    /\ UNCHANGED <<max_retries, generated_code, previous_errors, ast_validation,
                   analysis, validation_result, storage, invocations,
                   validations, candidates_seen>>
    /\ UNCHANGED <<unit_vars, registries>>

\* one pass of the loop head: the generator is invoked and returns a text
GenerateCodeReturns(code) ==
    /\ pc = "loop"
    /\ attempt' = attempt + 1
    /\ invocations' = invocations + 1
    /\ previous_errors' = PreviousErrors(validation_result)
    /\ generated_code' = Some(code)
    /\ candidates_seen' = candidates_seen \cup {code}
    /\ pc' = "validating"
    /\ UNCHANGED <<max_retries, request, dependency_validation, rag_context,
                   ast_validation, analysis, validation_result, storage, result,
                   validations>>
    /\ UNCHANGED <<unit_vars, registries>>

\* mutant: a failed call is taken from the retry budget and retried
GenerateCodeRaisesRetried ==
    /\ pc = "loop"
    /\ attempt' = attempt + 1
    /\ invocations' = invocations + 1
    /\ previous_errors' = PreviousErrors(validation_result)
    /\ pc' = IF LoopCondition(attempt + 1, max_retries) THEN "loop" ELSE "raised"
    /\ result' = [tag |-> "raise", exc |-> "GenerationError",
                  unsupported |-> <<>>, tool |-> None]
    /\ UNCHANGED <<max_retries, request, dependency_validation, rag_context,
                   generated_code, ast_validation, analysis, validation_result,
                   storage, validations, candidates_seen>>
    /\ UNCHANGED <<unit_vars, registries>>

\* the generator call fails (prompt building, transport, timeout, empty
\* response): _generate_code_with_claude logs and re-raises, nothing catches
GenerateCodeRaises ==
    /\ pc = "loop"
    /\ attempt' = attempt + 1
    /\ invocations' = invocations + 1
    /\ previous_errors' = PreviousErrors(validation_result)
    /\ pc' = "raised"
    /\ result' = [tag |-> "raise", exc |-> "GenerationError",
                  unsupported |-> <<>>, tool |-> None]
    /\ UNCHANGED <<max_retries, request, dependency_validation, rag_context,
                   generated_code, ast_validation, analysis, validation_result,
                   storage, validations, candidates_seen>>
    /\ UNCHANGED <<unit_vars, registries>>

\* the rest of the loop body: the gate, the save of an accepted candidate
\* (a failure to write is caught and logged), the two breaks
ValidateTool(save_ok) ==
    /\ pc = "validating"
    /\ LET code == generated_code[1]
           outcome == validate_tool(code)
       IN /\ ast_validation' = Some(Validator_validate(code))
          /\ analysis' = PatternMatcher_analyze(code)
          /\ IF outcome.tag = "raise"
             THEN /\ pc' = "raised"
                  /\ result' = [tag |-> "raise", exc |-> outcome.exc,
                                unsupported |-> <<>>, tool |-> None]
                  /\ UNCHANGED <<validation_result, validations, storage>>
             ELSE /\ validation_result' = Some(outcome.value)
                  /\ validations' = validations + 1
                  /\ storage' = IF outcome.value.is_valid /\ save_ok
                                THEN storage \cup {"tool_file"} ELSE storage
                  /\ pc' = AfterValidation(outcome.value.is_valid, attempt, max_retries)
                  /\ UNCHANGED result
    /\ UNCHANGED <<max_retries, request, dependency_validation, rag_context,
                   attempt, generated_code, previous_errors, invocations,
                   candidates_seen>>
    /\ UNCHANGED <<unit_vars, registries>>

\* mutant: the artifact carries the structural validator's result in place
\* of the gate's
FinishStructuralOnly(save_ok) ==
    /\ pc = "finish"
    /\ IF generated_code = None \/ validation_result = None
       THEN /\ pc' = "raised"
            /\ result' = [tag |-> "raise", exc |-> "ValidationError",
                          unsupported |-> <<>>, tool |-> None]
            /\ UNCHANGED storage
       ELSE /\ pc' = "returned"
            /\ result' =
                 [tag |-> "return", exc |-> "none", unsupported |-> <<>>,
                  tool |-> Some(GeneratedTool(
                      generated_code[1], request.dependencies, ast_validation[1],
                      _generate_documentation(request.dependencies, generated_code[1]),
                      DeploymentInstructions(request.dependencies,
                                             dependency_validation)))]
            /\ storage' = IF save_ok THEN storage \cup {"response_json"} ELSE storage
    /\ UNCHANGED <<max_retries, request, dependency_validation, rag_context,
                   attempt, generated_code, previous_errors, ast_validation,
                   analysis, validation_result, invocations, validations,
                   candidates_seen>>
    /\ UNCHANGED <<unit_vars, registries>>

\* mutant: a failure to write the response fails the request
FinishSaveFatal(save_ok) ==
    /\ pc = "finish"
    /\ IF generated_code = None \/ validation_result = None
       THEN /\ pc' = "raised"
            /\ result' = [tag |-> "raise", exc |-> "ValidationError",
                          unsupported |-> <<>>, tool |-> None]
            /\ UNCHANGED storage
       ELSE IF ~save_ok
       THEN /\ pc' = "raised"
            /\ result' = [tag |-> "raise", exc |-> "OSError",
                          unsupported |-> <<>>, tool |-> None]
            /\ UNCHANGED storage
       ELSE /\ pc' = "returned"
            /\ result' =
                 [tag |-> "return", exc |-> "none", unsupported |-> <<>>,
                  tool |-> Some(GeneratedTool(
                      generated_code[1], request.dependencies, validation_result[1],
                      _generate_documentation(request.dependencies, generated_code[1]),
                      DeploymentInstructions(request.dependencies,
                                             dependency_validation)))]
            /\ storage' = storage \cup {"response_json"}
    /\ UNCHANGED <<max_retries, request, dependency_validation, rag_context,
                   attempt, generated_code, previous_errors, ast_validation,
                   analysis, validation_result, invocations, validations,
                   candidates_seen>>
    /\ UNCHANGED <<unit_vars, registries>>

\* after the loop: documentation, deployment instructions, the GeneratedTool,
\* the save of the response (a failure to write is caught and logged).
\* GeneratedTool requires tool_code and validation: with none (the loop body
\* never ran) its construction raises.
Finish(save_ok) ==
    /\ pc = "finish"
    /\ IF generated_code = None \/ validation_result = None
       THEN /\ pc' = "raised"
            /\ result' = [tag |-> "raise", exc |-> "ValidationError",
                          unsupported |-> <<>>, tool |-> None]
            /\ UNCHANGED storage
       ELSE /\ pc' = "returned"
            /\ result' =
                 [tag |-> "return", exc |-> "none", unsupported |-> <<>>,
                  tool |-> Some(GeneratedTool(
                      generated_code[1], request.dependencies, validation_result[1],
                      _generate_documentation(request.dependencies, generated_code[1]),
                      DeploymentInstructions(request.dependencies,
                                             dependency_validation)))]
            /\ storage' = IF save_ok THEN storage \cup {"response_json"} ELSE storage
    /\ UNCHANGED <<max_retries, request, dependency_validation, rag_context,
                   attempt, generated_code, previous_errors, ast_validation,
                   analysis, validation_result, invocations, validations,
                   candidates_seen>>
    /\ UNCHANGED <<unit_vars, registries>>

Next ==
    \/ \E deps \in SeqsUpTo(OrchDepNames, MaxDeps), strict \in BOOLEAN :
          GenerateToolStart(deps, strict)
    \/ \E code \in GeneratorOutputs : GenerateCodeReturns(code)
    \/ GenerateCodeRaises
    \/ \E save_ok \in BOOLEAN : ValidateTool(save_ok)
    \/ \E save_ok \in BOOLEAN : Finish(save_ok)

Spec == Init /\ [][Next]_vars

(***************************************************************************)
(* The validators called on their own, on every candidate of the universe: *)
(* CrewAIToolValidator.validate, PatternMatcher.analyze (as quick_validate *)
(* calls it) and the generator's public validate_tool.                     *)
(***************************************************************************)
InitValidators ==
    /\ RegistriesLoaded
    /\ NoUnitCall
    /\ pc = "call"
    /\ max_retries = 0
    /\ request = [dependencies |-> <<>>, strict |-> FALSE]
    /\ dependency_validation = DependencyValidator_validate(<<>>, FALSE, TRUE)
    /\ rag_context = NoRetrieval
    /\ attempt = 0
    /\ generated_code \in { Some(c) : c \in Candidates }
    /\ previous_errors = None
    /\ ast_validation = None
    /\ analysis = NoOutcome
    /\ validation_result = None
    /\ storage = {}
    /\ result = NoResult
    /\ invocations = 0
    /\ validations = 0
    /\ candidates_seen = {}

CallValidate ==
    /\ pc = "call"
    /\ ast_validation' = Some(Validator_validate(generated_code[1]))
    /\ pc' = "validate_done"
    /\ UNCHANGED <<max_retries, request, dependency_validation, rag_context,
                   attempt, generated_code, previous_errors, analysis,
                   validation_result, storage, result, invocations, validations,
                   candidates_seen>>
    /\ UNCHANGED <<unit_vars, registries>>

CallAnalyze ==
    /\ pc = "call"
    /\ analysis' = PatternMatcher_analyze(generated_code[1])
    /\ pc' = "analyze_done"
    /\ UNCHANGED <<max_retries, request, dependency_validation, rag_context,
                   attempt, generated_code, previous_errors, ast_validation,
                   validation_result, storage, result, invocations, validations,
                   candidates_seen>>
    /\ UNCHANGED <<unit_vars, registries>>

CallValidateTool ==
    /\ pc = "call"
    /\ LET code == generated_code[1]
           outcome == validate_tool(code)
       IN /\ ast_validation' = Some(Validator_validate(code))
          /\ analysis' = PatternMatcher_analyze(code)
          /\ validation_result' = IF outcome.tag = "return"
                                  THEN Some(outcome.value) ELSE None
          /\ result' = [tag |-> outcome.tag, exc |-> outcome.exc,
                        unsupported |-> <<>>, tool |-> None]
    /\ pc' = "validate_tool_done"
    /\ UNCHANGED <<max_retries, request, dependency_validation, rag_context,
                   attempt, generated_code, previous_errors, storage,
                   invocations, validations, candidates_seen>>
    /\ UNCHANGED <<unit_vars, registries>>

NextValidators == CallValidate \/ CallAnalyze \/ CallValidateTool

SpecValidators == InitValidators /\ [][NextValidators]_vars

(***************************************************************************)
(* _calculate_pattern_score called on its own with every checks dict.      *)
(***************************************************************************)
\* the keys of the checks dict analyze builds
Signals ==
    {"has_base_tool", "has_args_schema", "has_run_method", "has_docstrings",
     "has_error_handling", "imports_valid", "type_hints_valid", "attrs_valid"}

InitScore ==
    /\ RegistriesLoaded
    /\ NoUnitCall
    /\ pc = "call"
    /\ max_retries = 0
    /\ request = [dependencies |-> <<>>, strict |-> FALSE]
    /\ dependency_validation = DependencyValidator_validate(<<>>, FALSE, TRUE)
    /\ rag_context = NoRetrieval
    /\ attempt = 0
    /\ generated_code = None
    /\ previous_errors = None
    /\ ast_validation = None
    /\ analysis = NoOutcome
    /\ validation_result = None
    /\ storage = {}
    /\ result = NoResult
    /\ invocations = 0
    /\ validations = 0
    /\ candidates_seen = {}

CallCalculatePatternScore(c) ==
    /\ pc = "call"
    /\ checks' = Some(c)
    /\ pattern_score' = Some(PatternMatcher_calculate_pattern_score(c))
    /\ pc' = "score_done"
    /\ UNCHANGED <<max_retries, request, dependency_validation, rag_context,
                   attempt, generated_code, previous_errors, ast_validation,
                   analysis, validation_result, storage, result, invocations,
                   validations, candidates_seen, classification, classified,
                   registries>>

NextScore == \E c \in [Signals -> BOOLEAN] : CallCalculatePatternScore(c)

SpecScore == InitScore /\ [][NextScore]_vars

(***************************************************************************)
(* The dependency classifier called on its own: validate_dependencies and  *)
(* DependencyValidator.validate, on every list over DepNames and in every  *)
(* mode.                                                                   *)
(***************************************************************************)
InitClassifier ==
    /\ RegistriesLoaded
    /\ NoUnitCall
    /\ pc = "call"
    /\ max_retries = 0
    /\ request \in { [dependencies |-> d, strict |-> st, suggest_manual |-> sm] :
                       d \in SeqsUpTo(DepNames, MaxDeps),
                       st \in BOOLEAN, sm \in BOOLEAN }
    /\ dependency_validation = DependencyValidator_validate(<<>>, FALSE, TRUE)
    /\ rag_context = NoRetrieval
    /\ attempt = 0
    /\ generated_code = None
    /\ previous_errors = None
    /\ ast_validation = None
    /\ analysis = NoOutcome
    /\ validation_result = None
    /\ storage = {}
    /\ result = NoResult
    /\ invocations = 0
    /\ validations = 0
    /\ candidates_seen = {}

CallValidateDependencies ==
    /\ pc = "call"
    /\ classification' = Some(validate_dependencies(request.dependencies))
    /\ pc' = "validate_dependencies_done"
    /\ UNCHANGED <<max_retries, request, dependency_validation, rag_context,
                   attempt, generated_code, previous_errors, ast_validation,
                   analysis, validation_result, storage, result, invocations,
                   validations, candidates_seen, checks, pattern_score,
                   classified, registries>>

CallDependencyValidator ==
    /\ pc = "call"
    /\ dependency_validation' =
           DependencyValidator_validate(request.dependencies, request.strict,
                                        request.suggest_manual)
    /\ pc' = "dependency_validate_done"
    /\ UNCHANGED <<max_retries, request, rag_context,
                   attempt, generated_code, previous_errors, ast_validation,
                   analysis, validation_result, storage, result, invocations,
                   validations, candidates_seen, unit_vars, registries>>

NextClassifier == CallValidateDependencies \/ CallDependencyValidator

SpecClassifier == InitClassifier /\ [][NextClassifier]_vars

(***************************************************************************)
(* One DependencyValidator called again and again, as the shared generator *)
(* of service.py calls it for request after request.  Each call reads the  *)
(* two module globals as they are at that time.                            *)
(***************************************************************************)
CallDepNames == {"requests", "fake_lib"}

\* the part of a DependencyValidationResult that is the classification
Classification(dv) ==
    [supported |-> dv.supported, unsupported |-> dv.unsupported,
     stdlib |-> dv.stdlib, external |-> dv.external,
     alternatives |-> dv.alternatives]

InitCalls ==
    /\ RegistriesLoaded
    /\ NoUnitCall
    /\ pc = "calls"
    /\ max_retries = 0
    /\ request = [dependencies |-> <<>>, strict |-> FALSE, suggest_manual |-> TRUE]
    /\ dependency_validation = DependencyValidator_validate(<<>>, FALSE, TRUE)
    /\ rag_context = NoRetrieval
    /\ attempt = 0
    /\ generated_code = None
    /\ previous_errors = None
    /\ ast_validation = None
    /\ analysis = NoOutcome
    /\ validation_result = None
    /\ storage = {}
    /\ result = NoResult
    /\ invocations = 0
    /\ validations = 0
    /\ candidates_seen = {}

\* mutant: a call remembers the names it rejected by adding them to the
\* approved registry
ClassifyCallRegisters(deps, strict) ==
    /\ pc = "calls"
    /\ Len(classified) < MaxCalls
    /\ LET dv == DependencyValidator_validate(deps, strict, TRUE) IN
       /\ dependency_validation' = dv
       /\ classification' = Some(validate_dependencies(deps))
       /\ classified' = Append(classified, [dependencies |-> deps,
                                            result |-> Classification(dv)])
       /\ supported_libraries' = supported_libraries \cup Range(dv.unsupported)
    /\ request' = [dependencies |-> deps, strict |-> strict, suggest_manual |-> TRUE]
    /\ UNCHANGED <<pc, max_retries, rag_context, attempt, generated_code,
                   previous_errors, ast_validation, analysis, validation_result,
                   storage, result, invocations, validations, candidates_seen,
                   checks, pattern_score, stdlib_modules>>

\* one call of DependencyValidator.validate, validate_dependencies within it
ClassifyCall(deps, strict) ==
    /\ pc = "calls"
    /\ Len(classified) < MaxCalls
    /\ LET dv == DependencyValidator_validate(deps, strict, TRUE) IN
       /\ dependency_validation' = dv
       /\ classification' = Some(validate_dependencies(deps))
       /\ classified' = Append(classified, [dependencies |-> deps,
                                            result |-> Classification(dv)])
    /\ request' = [dependencies |-> deps, strict |-> strict, suggest_manual |-> TRUE]
    /\ UNCHANGED <<pc, max_retries, rag_context, attempt, generated_code,
                   previous_errors, ast_validation, analysis, validation_result,
                   storage, result, invocations, validations, candidates_seen,
                   checks, pattern_score, registries>>

NextCalls ==
    \E deps \in SeqsUpTo(CallDepNames, MaxDeps), strict \in BOOLEAN :
        ClassifyCall(deps, strict)

SpecCalls == InitCalls /\ [][NextCalls]_vars

(***************************************************************************)
(* CrewAIFeasibilityChecker.assess called once on a spec dictionary and a   *)
(* retrieval result.  A key of the dictionary is missing (None) or holds a  *)
(* value; dict.get gives None for a missing key, and `not` of None, of ""   *)
(* and of [] is true.                                                       *)
(***************************************************************************)
FalsyStr(o) == o = None \/ o[1] = ""
FalsyList(o) == o = None \/ Len(o[1]) = 0

\* rag_context and rag_context.get('results'), then len(...)
SimilarPatternsFound(rag) ==
    IF rag # None /\ ~FalsyList(rag[1].results) THEN Len(rag[1].results[1]) ELSE 0

\* missing_info, in the order of the three checks
MissingInfo(spec_dict) ==
    (IF FalsyStr(spec_dict.name) THEN <<"Tool name is required">> ELSE <<>>)
    \o (IF FalsyStr(spec_dict.description)
        THEN <<"Tool description is required">> ELSE <<>>)
    \o (IF FalsyList(spec_dict.requirements) /\ FalsyList(spec_dict.inputs)
        THEN <<"Either requirements or inputs should be specified">> ELSE <<>>)

\* mutant: the thresholds taken inclusively
ComplexityInclusive(spec_dict) ==
    IF FalsyList(spec_dict.requirements) THEN "simple"
    ELSE IF Len(spec_dict.requirements[1]) >= 5 THEN "complex"
    ELSE IF Len(spec_dict.requirements[1]) >= 2 THEN "medium"
    ELSE "simple"

Complexity(spec_dict) ==
    IF FalsyList(spec_dict.requirements) THEN "simple"
    ELSE IF Len(spec_dict.requirements[1]) > 5 THEN "complex"
    ELSE IF Len(spec_dict.requirements[1]) > 2 THEN "medium"
    ELSE "simple"

FeasibilityAssessment(feasible, confidence, complexity, suggestions, missing_info, found) ==
    [feasible |-> feasible, confidence |-> confidence, complexity |-> complexity,
     issues |-> <<>>, suggestions |-> suggestions, missing_info |-> missing_info,
     similar_patterns_found |-> found]

FeasibilityChecker_assess(spec_dict, rag) ==
    LET missing_info == MissingInfo(spec_dict)
        complexity == Complexity(spec_dict)
        found == SimilarPatternsFound(rag)
        suggestions ==
            IF found = 0
            THEN <<"No similar patterns found - generation may be less accurate">>
            ELSE <<>>
    IN  IF missing_info # <<>>
        THEN FeasibilityAssessment(FALSE, "blocked", complexity, suggestions,
                                   missing_info, found)
        ELSE IF complexity = "complex" /\ found = 0
        THEN FeasibilityAssessment(TRUE, "low", complexity,
                 Append(suggestions,
                        "Complex tool with no patterns - consider simplifying or adding more detail"),
                 missing_info, found)
        ELSE IF found >= 2
        THEN FeasibilityAssessment(TRUE, "high", complexity, suggestions,
                                   missing_info, found)
        ELSE FeasibilityAssessment(TRUE, "medium", complexity, suggestions,
                                   missing_info, found)

\* lists of n entries; the checker reads only their lengths
ListOf(x, n) == [i \in 1..n |-> x]

SpecDicts ==
    { [name |-> n, description |-> d, requirements |-> r, inputs |-> i] :
        n \in {None, Some(""), Some("CustomApiTool")},
        d \in {None, Some(""), Some("Calls an API")},
        r \in {None} \cup { Some(ListOf("requirement", k)) : k \in 0..MaxRequirements },
        i \in {None, Some(<<>>), Some(<<"input">>)} }

RagContexts ==
    {None, Some([results |-> None])}
    \cup { Some([results |-> Some(ListOf("SimilarTool", k))]) : k \in 0..MaxExemplars }

InitFeasibility ==
    /\ RegistriesLoaded
    /\ NoUnitCall
    /\ pc = "assess"
    /\ max_retries = 0
    /\ request \in { [spec_dict |-> d, rag_context |-> r] :
                       d \in SpecDicts, r \in RagContexts }
    /\ dependency_validation = DependencyValidator_validate(<<>>, FALSE, TRUE)
    /\ rag_context = NoRetrieval
    /\ attempt = 0
    /\ generated_code = None
    /\ previous_errors = None
    /\ ast_validation = None
    /\ analysis = NoOutcome
    /\ validation_result = None
    /\ storage = {}
    /\ result = NoResult
    /\ invocations = 0
    /\ validations = 0
    /\ candidates_seen = {}

CallAssess ==
    /\ pc = "assess"
    /\ result' = Return(FeasibilityChecker_assess(request.spec_dict,
                                                  request.rag_context))
    /\ pc' = "assess_done"
    /\ UNCHANGED <<max_retries, request, dependency_validation, rag_context,
                   attempt, generated_code, previous_errors, ast_validation,
                   analysis, validation_result, storage, invocations,
                   validations, candidates_seen, unit_vars, registries>>

NextFeasibility == CallAssess

SpecFeasibility == InitFeasibility /\ [][NextFeasibility]_vars

(***************************************************************************)
(* Two requests served by the one generator that lifespan() builds.  The    *)
(* locals of generate_tool (attempt, generated_code, validation_result,     *)
(* rag_context, dependency_validation) exist once per call, so here each of *)
(* these variables holds one value per request; max_retries, the two        *)
(* registries and the files on disk are the generator's and are shared.     *)
(* A request moves at its awaits; the other request may move in between.    *)
(* candidates_seen[r] is the sequence of what the generator gave request r: *)
(* Some(text), or None for a call that raised.                              *)
(***************************************************************************)
Requests == {1, 2}

\* the two requests carry different specs
ConcurrentSpecs ==
    [r \in Requests |->
        [dependencies |-> IF r = 1 THEN <<>> ELSE <<"fake_lib">>, strict |-> FALSE]]

ConcurrentOutputs == {Unparsable(1), MissingRun, EmptyModule, PerfectTool}

InitConcurrent ==
    /\ RegistriesLoaded
    /\ NoUnitCall
    /\ pc = [r \in Requests |-> "idle"]
    /\ max_retries \in 0..MaxRetriesBound
    /\ request = ConcurrentSpecs
    /\ dependency_validation =
           [r \in Requests |-> DependencyValidator_validate(<<>>, FALSE, TRUE)]
    /\ rag_context = [r \in Requests |-> NoRetrieval]
    /\ attempt = [r \in Requests |-> 0]
    /\ generated_code = [r \in Requests |-> None]
    /\ previous_errors = [r \in Requests |-> None]
    /\ ast_validation = None
    /\ analysis = NoOutcome
    /\ validation_result = [r \in Requests |-> None]
    /\ storage = {}
    /\ result = [r \in Requests |-> NoResult]
    /\ invocations = 0
    /\ validations = 0
    /\ candidates_seen = [r \in Requests |-> <<>>]

\* request r: generate_tool up to the loop
RequestStart(r) ==
    /\ pc[r] = "idle"
    /\ LET dv == DependencyValidator_validate(request[r].dependencies, FALSE, TRUE) IN
       /\ dependency_validation' = [dependency_validation EXCEPT ![r] = dv]
       /\ IF ~dv.can_proceed
          THEN /\ pc' = [pc EXCEPT ![r] = "raised"]
               /\ result' = [result EXCEPT ![r] =
                                [tag |-> "raise", exc |-> "ValueError",
                                 unsupported |-> dv.unsupported, tool |-> None]]
               /\ UNCHANGED rag_context
          ELSE /\ pc' = [pc EXCEPT ![r] =
                            IF LoopCondition(0, max_retries) THEN "loop" ELSE "finish"]
               /\ rag_context' = [rag_context EXCEPT ![r] =
                                     _retrieve_similar_components("status_200")]
               /\ UNCHANGED result
    /\ attempt' = [attempt EXCEPT ![r] = 0]
    /\ UNCHANGED <<max_retries, request, generated_code, previous_errors,
                   ast_validation, analysis, validation_result, storage,
                   invocations, validations, candidates_seen>>
    /\ UNCHANGED <<unit_vars, registries>>

\* request r: the generator returns a text
RequestGenerateCodeReturns(r, code) ==
    /\ pc[r] = "loop"
    /\ attempt' = [attempt EXCEPT ![r] = @ + 1]
    /\ previous_errors' = [previous_errors EXCEPT ![r] =
                              PreviousErrors(validation_result[r])]
    /\ generated_code' = [generated_code EXCEPT ![r] = Some(code)]
    /\ candidates_seen' = [candidates_seen EXCEPT ![r] = Append(@, Some(code))]
    /\ pc' = [pc EXCEPT ![r] = "validating"]
    /\ UNCHANGED <<max_retries, request, dependency_validation, rag_context,
                   ast_validation, analysis, validation_result, storage, result,
                   invocations, validations>>
    /\ UNCHANGED <<unit_vars, registries>>

\* request r: the generator call raises
RequestGenerateCodeRaises(r) ==
    /\ pc[r] = "loop"
    /\ attempt' = [attempt EXCEPT ![r] = @ + 1]
    /\ previous_errors' = [previous_errors EXCEPT ![r] =
                              PreviousErrors(validation_result[r])]
    /\ candidates_seen' = [candidates_seen EXCEPT ![r] = Append(@, None)]
    /\ pc' = [pc EXCEPT ![r] = "raised"]
    /\ result' = [result EXCEPT ![r] =
                     [tag |-> "raise", exc |-> "GenerationError",
                      unsupported |-> <<>>, tool |-> None]]
    /\ UNCHANGED <<max_retries, request, dependency_validation, rag_context,
                   generated_code, ast_validation, analysis, validation_result,
                   storage, invocations, validations>>
    /\ UNCHANGED <<unit_vars, registries>>

\* mutant: the gate result is kept on the shared generator, so the other
\* request reads it as its own
RequestValidateToolShared(r, save_ok) ==
    /\ pc[r] = "validating"
    /\ LET outcome == validate_tool(generated_code[r][1]) IN
       IF outcome.tag = "raise"
       THEN /\ pc' = [pc EXCEPT ![r] = "raised"]
            /\ result' = [result EXCEPT ![r] =
                             [tag |-> "raise", exc |-> outcome.exc,
                              unsupported |-> <<>>, tool |-> None]]
            /\ UNCHANGED <<validation_result, storage>>
       ELSE /\ validation_result' = [q \in Requests |-> Some(outcome.value)]
            /\ storage' = IF outcome.value.is_valid /\ save_ok
                          THEN storage \cup {"tool_file"} ELSE storage
            /\ pc' = [pc EXCEPT ![r] =
                         AfterValidation(outcome.value.is_valid, attempt[r],
                                         max_retries)]
            /\ UNCHANGED result
    /\ UNCHANGED <<max_retries, request, dependency_validation, rag_context,
                   attempt, generated_code, previous_errors, ast_validation,
                   analysis, invocations, validations, candidates_seen>>
    /\ UNCHANGED <<unit_vars, registries>>

\* request r: the gate, the save of an accepted candidate, the two breaks
RequestValidateTool(r, save_ok) ==
    /\ pc[r] = "validating"
    /\ LET outcome == validate_tool(generated_code[r][1]) IN
       IF outcome.tag = "raise"
       THEN /\ pc' = [pc EXCEPT ![r] = "raised"]
            /\ result' = [result EXCEPT ![r] =
                             [tag |-> "raise", exc |-> outcome.exc,
                              unsupported |-> <<>>, tool |-> None]]
            /\ UNCHANGED <<validation_result, storage>>
       ELSE /\ validation_result' = [validation_result EXCEPT ![r] =
                                        Some(outcome.value)]
            /\ storage' = IF outcome.value.is_valid /\ save_ok
                          THEN storage \cup {"tool_file"} ELSE storage
            /\ pc' = [pc EXCEPT ![r] =
                         AfterValidation(outcome.value.is_valid, attempt[r],
                                         max_retries)]
            /\ UNCHANGED result
    /\ UNCHANGED <<max_retries, request, dependency_validation, rag_context,
                   attempt, generated_code, previous_errors, ast_validation,
                   analysis, invocations, validations, candidates_seen>>
    /\ UNCHANGED <<unit_vars, registries>>

\* request r: after the loop
RequestFinish(r, save_ok) ==
    /\ pc[r] = "finish"
    /\ IF generated_code[r] = None \/ validation_result[r] = None
       THEN /\ pc' = [pc EXCEPT ![r] = "raised"]
            /\ result' = [result EXCEPT ![r] =
                             [tag |-> "raise", exc |-> "ValidationError",
                              unsupported |-> <<>>, tool |-> None]]
            /\ UNCHANGED storage
       ELSE /\ pc' = [pc EXCEPT ![r] = "returned"]
            /\ result' = [result EXCEPT ![r] =
                 [tag |-> "return", exc |-> "none", unsupported |-> <<>>,
                  tool |-> Some(GeneratedTool(
                      generated_code[r][1], request[r].dependencies,
                      validation_result[r][1],
                      _generate_documentation(request[r].dependencies,
                                              generated_code[r][1]),
                      DeploymentInstructions(request[r].dependencies,
                                             dependency_validation[r])))]]
            /\ storage' = IF save_ok THEN storage \cup {"response_json"} ELSE storage
    /\ UNCHANGED <<max_retries, request, dependency_validation, rag_context,
                   attempt, generated_code, previous_errors, ast_validation,
                   analysis, validation_result, invocations, validations,
                   candidates_seen>>
    /\ UNCHANGED <<unit_vars, registries>>

NextConcurrent ==
    \E r \in Requests :
        \/ RequestStart(r)
        \/ \E code \in ConcurrentOutputs : RequestGenerateCodeReturns(r, code)
        \/ RequestGenerateCodeRaises(r)
        \/ \E save_ok \in BOOLEAN : RequestValidateTool(r, save_ok)
        \/ \E save_ok \in BOOLEAN : RequestFinish(r, save_ok)

SpecConcurrent == InitConcurrent /\ [][NextConcurrent]_vars

(***************************************************************************)
(* One request running alone, as a function of what it was given: its spec, *)
(* the generator's max_retries and the sequence `given` of what the         *)
(* generator gave it.  The value is the set of positions the lone request   *)
(* passes through once it has been given all of `given` and nothing more.   *)
(***************************************************************************)
Locals(p, a, gc, pe, vr, res) ==
    [pc |-> p, attempt |-> a, generated_code |-> gc, previous_errors |-> pe,
     validation_result |-> vr, result |-> res]

AloneFinish(spec, L) ==
    IF L.generated_code = None \/ L.validation_result = None
    THEN Locals("raised", L.attempt, L.generated_code, L.previous_errors,
                L.validation_result,
                [tag |-> "raise", exc |-> "ValidationError",
                 unsupported |-> <<>>, tool |-> None])
    ELSE Locals("returned", L.attempt, L.generated_code, L.previous_errors,
                L.validation_result,
                [tag |-> "return", exc |-> "none", unsupported |-> <<>>,
                 tool |-> Some(GeneratedTool(
                     L.generated_code[1], spec.dependencies, L.validation_result[1],
                     _generate_documentation(spec.dependencies, L.generated_code[1]),
                     DeploymentInstructions(spec.dependencies,
                         DependencyValidator_validate(spec.dependencies, FALSE, TRUE))))])

RECURSIVE AloneLoop(_, _, _, _)
AloneLoop(spec, mr, L, given) ==
    IF given = <<>>
    THEN IF L.pc = "finish" THEN {L, AloneFinish(spec, L)} ELSE {L}
    ELSE IF L.pc # "loop" THEN {}
    ELSE IF Head(given) = None
    THEN IF Tail(given) # <<>> THEN {}
         ELSE { Locals("raised", L.attempt + 1, L.generated_code,
                       PreviousErrors(L.validation_result), L.validation_result,
                       [tag |-> "raise", exc |-> "GenerationError",
                        unsupported |-> <<>>, tool |-> None]) }
    ELSE LET code == Head(given)[1]
             called == Locals("validating", L.attempt + 1, Some(code),
                              PreviousErrors(L.validation_result),
                              L.validation_result, L.result)
             outcome == validate_tool(code)
             gated ==
                 IF outcome.tag = "raise"
                 THEN Locals("raised", called.attempt, called.generated_code,
                             called.previous_errors, called.validation_result,
                             [tag |-> "raise", exc |-> outcome.exc,
                              unsupported |-> <<>>, tool |-> None])
                 ELSE Locals(IF outcome.value.is_valid \/ called.attempt > mr
                             THEN "finish" ELSE "loop",
                             called.attempt, called.generated_code,
                             called.previous_errors, Some(outcome.value),
                             called.result)
         IN  IF Tail(given) = <<>>
             THEN {called} \cup AloneLoop(spec, mr, gated, <<>>)
             ELSE AloneLoop(spec, mr, gated, Tail(given))

AloneRun(spec, mr, given) ==
    LET idle == Locals("idle", 0, None, None, None, NoResult)
        dv == DependencyValidator_validate(spec.dependencies, FALSE, TRUE)
        started ==
            IF ~dv.can_proceed
            THEN Locals("raised", 0, None, None, None,
                        [tag |-> "raise", exc |-> "ValueError",
                         unsupported |-> dv.unsupported, tool |-> None])
            ELSE Locals(IF 0 <= mr THEN "loop" ELSE "finish", 0, None, None, None,
                        NoResult)
    IN  (IF given = <<>> THEN {idle} ELSE {}) \cup AloneLoop(spec, mr, started, given)

(***************************************************************************)
(* Properties.                                                             *)
(***************************************************************************)

\* C1: a request invokes the generator at most max_retries + 1 times; with
\* max_retries = 0 a request that is not blocked and whose generator call
\* returns makes exactly one invocation (none is pending before the first,
\* none follows it).
C1_InvocationBound ==
    /\ invocations <= max_retries + 1
    /\ max_retries = 0 =>
         /\ pc = "loop" => invocations = 0
         /\ pc \in {"validating", "finish", "returned"} => invocations = 1
         /\ (pc = "raised" /\ result.exc # "ValueError") => invocations = 1

\* C1 witness: budget 0, the one candidate was rejected, the request returned
C1_Witness ==
    /\ max_retries = 0
    /\ pc = "returned"
    /\ invocations = 1
    /\ ~validation_result[1].is_valid

C3_StopsAtAcceptance ==
    [][ /\ (validation_result # None /\ validation_result[1].is_valid) =>
              /\ invocations' = invocations
              /\ validations' = validations
              /\ pc' = "returned"
        /\ (candidates_seen' = {PerfectTool} /\ pc' # "validating") =>
              /\ invocations' = 1
              /\ pc' \in {"finish", "returned"}
              /\ validation_result'[1].is_valid ]_vars

\* C3 witness: accepted on the first attempt with retry budget left
C3_Witness ==
    /\ pc = "returned"
    /\ candidates_seen = {PerfectTool}
    /\ invocations = 1
    /\ max_retries >= 1
    /\ result.tool[1].validation.is_valid

C5_FeedbackCarried ==
    [][ invocations' = invocations + 1 =>
          /\ validations = invocations
          /\ invocations = 0 => previous_errors' = None
          /\ invocations >= 1 =>
               /\ validation_result = Some(validate_tool(generated_code[1]).value)
               /\ previous_errors' = Some(validation_result[1].errors)
               /\ generated_code[1].parse = "SyntaxError" =>
                    Msg("Syntax error at line", {generated_code[1].msg},
                        generated_code[1].lineno) \in Range(previous_errors'[1]) ]_vars

\* C5 witness: the third invocation got the syntax error of the second
\* candidate (line 2) and no error of the first (line 1)
C5_Witness ==
    /\ invocations = 3
    /\ pc = "validating"
    /\ Unparsable(1) \in candidates_seen
    /\ previous_errors # None
    /\ Msg("Syntax error at line", {"invalid syntax"}, 2) \in Range(previous_errors[1])
    /\ \A e \in Range(previous_errors[1]) : e.line # 1

C7_GeneratorFailureFatal ==
    [][ /\ result.exc # "GenerationError"
        /\ result'.exc = "GenerationError" =>
             /\ pc' = "raised"
             /\ result'.tool = None
             /\ invocations' = invocations + 1
             /\ validations' = validations ]_vars

\* C7 witness: the generator failed while retry budget remained
C7_Witness ==
    /\ pc = "raised"
    /\ result.exc = "GenerationError"
    /\ invocations >= 2
    /\ invocations <= max_retries

\* C8: generate_tool raises only for blocked dependencies or a failed
\* generator invocation; whatever texts the generator returns, the request
\* returns a GeneratedTool.
C8_StructuredResult ==
    /\ pc = "raised" => result.exc \in {"ValueError", "GenerationError"}
    /\ pc = "returned" => result.tag = "return" /\ result.tool # None

\* C9: PatternMatcher.analyze returns a PatternMatchResult for every text.
C9_AnalyzeNeverRaises ==
    pc = "analyze_done" => analysis.tag = "return"

\* C10: in every result of analyze, matches_pattern implies score >= 80 and
\* both the base-type and the primary-run signal; a candidate with no class
\* inheriting BaseTool scores at most 75 and does not match.
C10_MatchesPattern ==
    analysis.tag = "return" =>
        /\ analysis.value.matches_pattern =>
             /\ analysis.value.pattern_score >= 80
             /\ analysis.value.has_base_tool
             /\ analysis.value.has_run_method
        /\ (\A i \in 1..Len(generated_code[1].classes) :
               "BaseTool" \notin generated_code[1].classes[i].bases) =>
             /\ analysis.value.pattern_score <= 75
             /\ ~analysis.value.matches_pattern

\* C10 witness: no class inherits BaseTool, every other attainable signal is
\* true, and the result does not match
C10_Witness ==
    /\ pc = "analyze_done"
    /\ analysis.tag = "return"
    /\ \A i \in 1..Len(generated_code[1].classes) :
          "BaseTool" \notin generated_code[1].classes[i].bases
    /\ analysis.value.pattern_score = 70
    /\ analysis.value.has_run_method
    /\ ~analysis.value.matches_pattern

\* C11: for every combination of the eight signals the score is the sum of
\* the weights of the true ones (25, 25, 15, 10, 10, 5, 5, 5); it is an
\* integer in 0..100 and is 100 exactly when all eight signals are true.
C11_ScoreIsWeightedSum ==
    pattern_score # None =>
        LET weight == [has_base_tool |-> 25, has_run_method |-> 25,
                       has_args_schema |-> 15, has_docstrings |-> 10,
                       has_error_handling |-> 10, imports_valid |-> 5,
                       type_hints_valid |-> 5, attrs_valid |-> 5]
            part(k) == IF checks[1][k] THEN weight[k] ELSE 0
        IN /\ pattern_score[1] =
                part("has_base_tool") + part("has_run_method")
              + part("has_args_schema") + part("has_docstrings")
              + part("has_error_handling") + part("imports_valid")
              + part("type_hints_valid") + part("attrs_valid")
           /\ pattern_score[1] \in 0..100
           /\ pattern_score[1] = 100 <=> \A k \in Signals : checks[1][k]

\* C11 witness: a combination no parsed text produces (attributes valid
\* without a base class), scored 15 + 10 + 5
C11_Witness ==
    /\ pc = "score_done"
    /\ checks[1].has_args_schema /\ checks[1].has_docstrings /\ checks[1].attrs_valid
    /\ \A k \in Signals \ {"has_args_schema", "has_docstrings", "attrs_valid"} :
          ~checks[1][k]
    /\ pattern_score[1] = 30

\* C12: the candidate the request holds changes only by a generator
\* invocation and is then the text that invocation returned; the returned
\* artifact carries that last candidate as tool_code and, as validation, the
\* gate result computed on it, every invocation having had its gate pass,
\* when the request was accepted and when its budget was exhausted.
C12_ArtifactPairsLastAttempt ==
    [][ /\ generated_code' # generated_code =>
              /\ invocations' = invocations + 1
              /\ candidates_seen' \subseteq candidates_seen \cup {generated_code'[1]}
        /\ (pc # "returned" /\ pc' = "returned") =>
              /\ result'.tool[1].tool_code = generated_code[1]
              /\ validate_tool(generated_code[1]).tag = "return"
              /\ result'.tool[1].validation = validate_tool(generated_code[1]).value
              /\ validations = invocations ]_vars

\* C12 witness: accepted on the second attempt after an unparsable first
\* candidate, the artifact holding the second candidate and its gate result
C12_Witness ==
    /\ pc = "returned"
    /\ invocations = 2
    /\ Unparsable(1) \in candidates_seen
    /\ result.tool[1].tool_code = PerfectTool
    /\ result.tool[1].validation = validate_tool(PerfectTool).value
    /\ result.tool[1].validation # validate_tool(Unparsable(1)).value
    /\ result.tool[1].validation.is_valid

\* C13: for every dependency list, the empty one included, whose names are
\* all members of the always-available registry or match, letter case aside,
\* a name of the approved-external registry, DependencyValidator.validate
\* returns all_supported = true, no unsupported name and can_proceed = true,
\* in strict and in non-strict mode.
C13_AllSupportedProceeds ==
    (/\ pc = "dependency_validate_done"
     /\ \A n \in Range(request.dependencies) :
           \/ n \in STDLIB_MODULES
           \/ \E lib \in SUPPORTED_LIBRARIES : Lower(lib) = Lower(n)) =>
        /\ dependency_validation.all_supported
        /\ dependency_validation.unsupported = <<>>
        /\ dependency_validation.can_proceed

\* C13 witness: strict mode, a dotted registry member and an approved name in
\* another spelling
C13_Witness ==
    /\ pc = "dependency_validate_done"
    /\ request.strict
    /\ request.dependencies = <<"os.path", "Requests">>
    /\ dependency_validation.all_supported
    /\ dependency_validation.can_proceed

\* C14: DependencyValidator.validate clears can_proceed exactly when strict
\* mode is on and unsupported is non-empty, and then every input name that
\* neither registry recognizes is in unsupported as spelled;
\* manual_implementation_needed is true exactly when unsupported is
\* non-empty; severity is success with no unsupported name, warning with some
\* in non-strict mode, error with some in strict mode.
C14_CanProceedAndSeverity ==
    pc = "dependency_validate_done" =>
        LET dv == dependency_validation
            some == dv.unsupported # <<>>
            unrecognized(n) ==
                /\ BaseModule(n) \notin STDLIB_MODULES
                /\ ~ \E lib \in SUPPORTED_LIBRARIES : Lower(lib) = Lower(n)
        IN /\ ~dv.can_proceed <=> (request.strict /\ some)
           /\ ~dv.can_proceed =>
                \A n \in Range(request.dependencies) :
                    unrecognized(n) => n \in Range(dv.unsupported)
           /\ dv.manual_implementation_needed <=> some
           /\ dv.severity = IF ~some THEN "success"
                            ELSE IF request.strict THEN "error" ELSE "warning"

\* C14 witness: strict mode, one unrecognized spelling of a registry member
\* next to the member itself
C14_Witness ==
    /\ pc = "dependency_validate_done"
    /\ request.strict
    /\ request.dependencies = <<"JSON", "json">>
    /\ ~dependency_validation.can_proceed
    /\ dependency_validation.unsupported = <<"JSON">>
    /\ dependency_validation.severity = "error"
    /\ dependency_validation.manual_implementation_needed

\* C15 as stated: validate_dependencies partitions its input into stdlib,
\* external and unsupported, supported being stdlib and external together; a
\* name is stdlib exactly when it is a member of the always-available
\* registry, otherwise external exactly when it matches, letter case aside, a
\* name of the approved-external registry, otherwise unsupported.
C15_PartitionByMembership ==
    pc = "validate_dependencies_done" =>
        LET c == classification[1]
            std(n) == n \in STDLIB_MODULES
            ext(n) == \E lib \in SUPPORTED_LIBRARIES : Lower(lib) = Lower(n)
        IN /\ Range(c.supported) = Range(c.stdlib) \cup Range(c.external)
           /\ Range(c.stdlib) \cup Range(c.external) \cup Range(c.unsupported)
                = Range(request.dependencies)
           /\ \A n \in Range(request.dependencies) :
                /\ n \in Range(c.stdlib) <=> std(n)
                /\ n \in Range(c.external) <=> (~std(n) /\ ext(n))
                /\ n \in Range(c.unsupported) <=> (~std(n) /\ ~ext(n))

\* C15 amended: the same partition, a name being stdlib exactly when the part
\* of it before its first dot is a member of the always-available registry
\* (so a submodule of a registered module is stdlib), otherwise external
\* exactly when the whole name, lower-cased, equals a lower-cased name of the
\* approved-external registry, otherwise unsupported; every occurrence of a
\* name lands in exactly one of the three lists.
C15_PartitionByBaseModule ==
    pc = "validate_dependencies_done" =>
        LET c == classification[1]
            std(n) == BaseModule(n) \in STDLIB_MODULES
            ext(n) == \E lib \in SUPPORTED_LIBRARIES : Lower(lib) = Lower(n)
        IN /\ Range(c.supported) = Range(c.stdlib) \cup Range(c.external)
           /\ Range(c.stdlib) \cup Range(c.external) \cup Range(c.unsupported)
                = Range(request.dependencies)
           /\ Len(c.stdlib) + Len(c.external) + Len(c.unsupported)
                = Len(request.dependencies)
           /\ Len(c.supported) = Len(c.stdlib) + Len(c.external)
           /\ \A n \in Range(request.dependencies) :
                /\ n \in Range(c.stdlib) <=> std(n)
                /\ n \in Range(c.external) <=> (~std(n) /\ ext(n))
                /\ n \in Range(c.unsupported) <=> (~std(n) /\ ~ext(n))

\* C15 witness: a submodule that is no registry member classified stdlib,
\* next to an upper-case spelling of its module classified unsupported
C15_Witness ==
    /\ pc = "validate_dependencies_done"
    /\ request.dependencies = <<"json.decoder", "JSON">>
    /\ "json.decoder" \notin STDLIB_MODULES
    /\ classification[1].stdlib = <<"json.decoder">>
    /\ classification[1].unsupported = <<"JSON">>

\* C16: in the classification of every input list, also one that repeats a
\* name, each name occurs at most once in each of supported, unsupported,
\* stdlib and external, in the result of validate_dependencies and in the
\* result of DependencyValidator.validate.
C16_OutputDeduplicated ==
    LET once(l) == \A i, j \in 1..Len(l) : l[i] = l[j] => i = j
        deduplicated(c) == /\ once(c.supported) /\ once(c.unsupported)
                           /\ once(c.stdlib) /\ once(c.external)
    IN /\ pc = "validate_dependencies_done" => deduplicated(classification[1])
       /\ pc = "dependency_validate_done" => deduplicated(dependency_validation)

\* C17: the alternatives map has an entry exactly for the unsupported names;
\* every entry is non-empty and is the entry of the explicit table when the
\* lower-cased name is one of its keys, otherwise the network alternatives
\* when the name contains http or web, the serialization alternatives when
\* it contains json, the tabular alternatives when it contains csv, and
\* otherwise the implement-manually fallback.
C17_AlternativesPrecedence ==
    LET table == [k \in DOMAIN ALTERNATIVES_MAP \ {"default"} |-> ALTERNATIVES_MAP[k]]
        expected(d) ==
            IF Lower(d) \in DOMAIN table THEN table[Lower(d)]
            ELSE IF StrContains("http", Lower(d)) \/ StrContains("web", Lower(d))
            THEN <<"requests", "httpx", "urllib.request (stdlib)">>
            ELSE IF StrContains("json", Lower(d)) THEN <<"json (stdlib)", "orjson">>
            ELSE IF StrContains("csv", Lower(d)) THEN <<"csv (stdlib)", "pandas">>
            ELSE <<"Implement manually using Python stdlib">>
        chosen(c) ==
            /\ DOMAIN c.alternatives = Range(c.unsupported)
            /\ \A d \in DOMAIN c.alternatives :
                  /\ c.alternatives[d] # <<>>
                  /\ c.alternatives[d] = expected(d)
    IN /\ pc = "validate_dependencies_done" => chosen(classification[1])
       /\ pc = "dependency_validate_done" => chosen(dependency_validation)

\* C17 witness: a key of the table in another spelling next to a name only
\* the http heuristic matches
C17_Witness ==
    /\ pc = "validate_dependencies_done"
    /\ request.dependencies = <<"Polars", "httplib2">>
    /\ classification[1].alternatives["Polars"] = <<"pandas">>
    /\ classification[1].alternatives["httplib2"]
         = <<"requests", "httpx", "urllib.request (stdlib)">>

\* C18: whenever the same list is classified again, whatever lists were
\* classified in between and in whatever mode, the supported, unsupported,
\* stdlib and external names and the alternatives are the same as before, and
\* are those of validate_dependencies called directly; both registries stay as
\* they were loaded.
C18_ClassificationDeterministic ==
    /\ \A i, j \in 1..Len(classified) :
          classified[i].dependencies = classified[j].dependencies =>
              /\ Range(classified[i].result.supported) = Range(classified[j].result.supported)
              /\ Range(classified[i].result.unsupported) = Range(classified[j].result.unsupported)
              /\ Range(classified[i].result.stdlib) = Range(classified[j].result.stdlib)
              /\ Range(classified[i].result.external) = Range(classified[j].result.external)
              /\ classified[i].result.alternatives = classified[j].result.alternatives
    /\ classified # <<>> =>
          classified[Len(classified)].result
            = [f \in DOMAIN classified[Len(classified)].result |-> classification[1][f]]
    /\ stdlib_modules = STDLIB_MODULES
    /\ supported_libraries = SUPPORTED_LIBRARIES

\* C18 witness: a list with an unsupported name classified, another list
\* classified in strict mode or not, then the first list again, result equal
C18_Witness ==
    /\ Len(classified) = 3
    /\ classified[1].dependencies = <<"fake_lib", "requests">>
    /\ classified[2].dependencies = <<"requests", "fake_lib">>
    /\ classified[3].dependencies = <<"fake_lib", "requests">>
    /\ classified[3].result = classified[1].result
    /\ classified[3].result.unsupported = <<"fake_lib">>

\* C19: on every return path of CrewAIToolValidator.validate (syntax error,
\* all checks run, exception caught) is_valid is true exactly when the error
\* list is empty; warnings and suggestions do not enter the verdict.
C19_ValidIffNoErrors ==
    (pc = "validate_done" /\ ast_validation # None) =>
        /\ ast_validation[1].is_valid <=> ast_validation[1].errors = <<>>
        /\ (/\ generated_code[1].parse = "tree"
            /\ Validator_check_imports(generated_code[1])[1] = <<>>
            /\ Validator_check_class_structure(generated_code[1])[1] = <<>>
            /\ Validator_check_security(generated_code[1])[1] = <<>>
            /\ Validator_check_basetool_compliance(generated_code[1])[1] = <<>>)
             => ast_validation[1].is_valid

\* C19 witness: no schema class and a shell command give two warnings, _run
\* without parameters a suggestion, and the candidate is valid
C19_Witness ==
    /\ pc = "validate_done"
    /\ generated_code[1] = WarningsOnly
    /\ Len(ast_validation[1].warnings) = 2
    /\ Len(ast_validation[1].suggestions) = 1
    /\ ast_validation[1].errors = <<>>
    /\ ast_validation[1].is_valid

\* C20: a candidate containing a call of eval, exec, __import__ or compile,
\* spelled bare or through the builtins module, is invalid for the structural
\* validator and is not accepted by the gate, whatever its pattern score.
C20_DangerousCallRejected ==
    LET qualified == {"builtins.eval"}
        dangerous(c) ==
            /\ c.parse = "tree"
            /\ \E i \in 1..Len(c.calls) :
                  c.calls[i] \in dangerous_functions \cup qualified
    IN (generated_code # None /\ dangerous(generated_code[1])) =>
          /\ ast_validation # None => ~ast_validation[1].is_valid
          /\ validation_result # None => ~validation_result[1].is_valid

\* C21: a retrieval that is unconfigured, raises or answers with a status
\* other than 200 gives an empty result list and the request goes on to the
\* loop; no request ends with a failure of storage or retrieval; once the
\* loop is left with a candidate and its gate result, the request returns the
\* complete artifact whether or not the response could be written, and a
\* failure to write the accepted candidate does not keep it from returning.
C21_CollaboratorFailuresNonFatal ==
    [][ /\ (pc = "idle" /\ pc' # "raised") =>
              /\ pc' \in {"loop", "finish"}
              /\ rag_context'.service # "status_200" => rag_context'.results = <<>>
        /\ pc' = "raised" =>
              result'.exc \in {"ValueError", "GenerationError", "IndexError",
                               "ValidationError"}
        /\ (pc = "validating" /\ validation_result' # None
                /\ validation_result'[1].is_valid) => pc' = "finish"
        /\ (pc = "finish" /\ generated_code # None /\ validation_result # None) =>
              /\ pc' = "returned"
              /\ result'.tag = "return"
              /\ result'.tool =
                   Some(GeneratedTool(
                       generated_code[1], request.dependencies, validation_result[1],
                       _generate_documentation(request.dependencies, generated_code[1]),
                       DeploymentInstructions(request.dependencies,
                                              dependency_validation))) ]_vars

\* C21 witness: retrieval raised, the candidate was accepted, neither the
\* tool file nor the response could be written, and the artifact is returned
C21_Witness ==
    /\ pc = "returned"
    /\ rag_context.service = "raises"
    /\ rag_context.results = <<>>
    /\ storage = {}
    /\ result.tool # None
    /\ result.tool[1].validation.is_valid
    /\ result.tool[1].tool_code = PerfectTool

\* C22: for every spec dictionary and every number of exemplars found, the
\* assessment is blocked and infeasible when name or description is empty or
\* neither requirements nor inputs has an entry; otherwise it is feasible,
\* with confidence high for at least 2 exemplars, low for a complex spec with
\* none, medium in all other cases; complexity is simple for at most 2
\* requirements, medium for at most 5, complex above 5; feasible is false
\* only when confidence is blocked.
C22_FeasibilityDecision ==
    pc = "assess_done" =>
        LET d == request.spec_dict
            a == result.value
            nreq == IF d.requirements = None THEN 0 ELSE Len(d.requirements[1])
            ninp == IF d.inputs = None THEN 0 ELSE Len(d.inputs[1])
            exemplars ==
                IF request.rag_context = None
                      \/ request.rag_context[1].results = None THEN 0
                ELSE Len(request.rag_context[1].results[1])
            incomplete ==
                \/ d.name \in {None, Some("")}
                \/ d.description \in {None, Some("")}
                \/ (nreq = 0 /\ ninp = 0)
        IN  /\ a.complexity = (IF nreq <= 2 THEN "simple"
                               ELSE IF nreq <= 5 THEN "medium" ELSE "complex")
            /\ incomplete => (a.confidence = "blocked" /\ ~a.feasible)
            /\ ~incomplete =>
                  /\ a.feasible
                  /\ a.confidence =
                        (IF exemplars >= 2 THEN "high"
                         ELSE IF nreq > 5 /\ exemplars = 0 THEN "low"
                         ELSE "medium")
            /\ ~a.feasible <=> a.confidence = "blocked"

\* C22 witness: a complete spec with 6 requirements and no exemplar is
\* assessed complex with low confidence
C22_Witness ==
    /\ pc = "assess_done"
    /\ request.spec_dict.requirements # None
    /\ Len(request.spec_dict.requirements[1]) = 6
    /\ request.rag_context = Some([results |-> Some(<<>>)])
    /\ result.value.feasible
    /\ result.value.confidence = "low"
    /\ result.value.complexity = "complex"

\* C23: under every interleaving of two requests on the shared generator,
\* each request's attempt counter, feedback, candidate, gate result and
\* returned artifact are those of the same request running alone with the
\* same spec and the same generator answers, and the generator's
\* max_retries is never written.
C23_RequestsDoNotInterfere ==
    /\ \A r \in Requests :
          Locals(pc[r], attempt[r], generated_code[r], previous_errors[r],
                 validation_result[r], result[r])
             \in AloneRun(request[r], max_retries, candidates_seen[r])
    /\ \A r \in Requests :
          pc[r] # "idle" =>
              dependency_validation[r] =
                  DependencyValidator_validate(request[r].dependencies, FALSE, TRUE)

\* C23 witness: request 1 returned the accepted candidate of its second
\* attempt while request 2, with another spec, is in the middle of its loop
\* with a rejected candidate
C23_Witness ==
    /\ pc[1] = "returned"
    /\ attempt[1] = 2
    /\ result[1].tool[1].validation.is_valid
    /\ pc[2] = "loop"
    /\ attempt[2] = 1
    /\ validation_result[2] # None
    /\ ~validation_result[2][1].is_valid
    /\ request[1] # request[2]

\* C24: when the candidate does not parse, validate returns is_valid = false
\* with exactly one error, which names the line and the parser's message,
\* and with no warning and no error of the import, class-structure, security
\* and interface-compliance checks.
C24_UnparsableOneSyntaxError ==
    (pc = "validate_done" /\ generated_code[1].parse # "tree") =>
        LET r == ast_validation[1] IN
        /\ ~r.is_valid
        /\ Len(r.errors) = 1
        /\ r.errors[1].text = "Syntax error at line"
        /\ r.errors[1].line = generated_code[1].lineno
        /\ r.errors[1].line >= 1
        /\ r.errors[1].names = {generated_code[1].msg}
        /\ r.warnings = <<>>

\* C25: for every parsable candidate with a class inheriting from BaseTool,
\* if the class the validator identifies (the first such class) lacks any of
\* name, description, args_schema or any of _run, run, then validate returns
\* is_valid = false, one of its errors names all the missing attributes and
\* one names all the missing methods.
C25_MissingMembersAllNamed ==
    (pc = "validate_done" /\ generated_code[1].parse = "tree"
        /\ FindToolClass(generated_code[1].classes) # 0) =>
        LET cls == generated_code[1].classes[FindToolClass(generated_code[1].classes)]
            lacking_attrs == {"name", "description", "args_schema"}
                                 \ (cls.ann \cup cls.plain)
            lacking_methods == {"_run", "run"} \ { m.name : m \in cls.methods }
            r == ast_validation[1]
        IN  /\ (lacking_attrs # {} \/ lacking_methods # {}) => ~r.is_valid
            /\ lacking_attrs # {} =>
                  \E i \in 1..Len(r.errors) :
                      /\ r.errors[i].text = "Missing required attributes"
                      /\ r.errors[i].names = lacking_attrs
            /\ lacking_methods # {} =>
                  \E i \in 1..Len(r.errors) :
                      /\ r.errors[i].text = "Missing required methods"
                      /\ r.errors[i].names = lacking_methods

\* C25 witness: a tool class with no attribute and no method, in a module
\* that also lacks the required import; the result names the three
\* attributes and the two methods
C25_Witness ==
    /\ pc = "validate_done"
    /\ generated_code[1].parse = "tree"
    /\ FindToolClass(generated_code[1].classes) # 0
    /\ \E i \in 1..Len(ast_validation[1].errors) :
          /\ ast_validation[1].errors[i].text = "Missing required attributes"
          /\ ast_validation[1].errors[i].names = {"name", "description", "args_schema"}
    /\ \E i \in 1..Len(ast_validation[1].errors) :
          /\ ast_validation[1].errors[i].text = "Missing required methods"
          /\ ast_validation[1].errors[i].names = {"_run", "run"}
    /\ \E i \in 1..Len(ast_validation[1].errors) :
          ast_validation[1].errors[i].text =
              "Missing required import: crewai.tools.BaseTool"

\* C26: for every parsable candidate, analyze returns a result with one
\* improvement suggestion for each of the eight signals that is false, one
\* best-practice entry for each of the eight signals that is true, and a
\* warning exactly for a false error-handling signal and for a false
\* documentation signal.
C26_EntryPerSignal ==
    (pc = "analyze_done" /\ generated_code[1].parse = "tree") =>
        IF analysis.tag # "return" THEN FALSE
        ELSE
          LET code == generated_code[1]
              r == analysis.value
              signals == << r.has_base_tool, r.has_run_method, r.has_args_schema,
                            r.has_docstrings, r.has_error_handling,
                            PatternMatcher_check_imports(code)[1],
                            PatternMatcher_check_type_hints(code)[1],
                            PatternMatcher_check_required_attributes(code)[1] >>
              false_signals == Cardinality({ i \in 1..8 : ~signals[i] })
          IN  /\ Len(r.suggestions) = false_signals
              /\ Len(r.best_practices) = 8 - false_signals
              /\ Len(r.warnings) = (IF r.has_error_handling THEN 0 ELSE 1)
                                     + (IF r.has_docstrings THEN 0 ELSE 1)
              /\ ~r.has_error_handling <=>
                    \E i \in 1..Len(r.warnings) : r.warnings[i].text =
                        "No error handling detected - tool may fail ungracefully"
              /\ ~r.has_docstrings <=>
                    \E i \in 1..Len(r.warnings) : r.warnings[i].text =
                        "Missing docstrings - reduces code maintainability"

\* C27 as stated: the errors of a result follow the order syntax, import,
\* class-structure, security, interface-compliance, and once a step has
\* reported an error no later step has run: all errors of a result come
\* from one step.
C27_StepsShortCircuit ==
    pc = "validate_done" =>
        LET StepOf(e) ==
                IF e.text = "Syntax error at line" THEN 1
                ELSE IF e.text \in {"Forbidden import detected",
                                    "Missing required import: crewai.tools.BaseTool"}
                THEN 2
                ELSE IF e.text \in {"No class definition found",
                                    "No class inheriting from BaseTool found"}
                THEN 3
                ELSE IF e.text = "Dangerous function call detected" THEN 4
                ELSE IF e.text \in {"Missing required attributes",
                                    "Missing required methods"}
                THEN 5
                ELSE 0
            errors == ast_validation[1].errors
        IN  \A i \in 1..Len(errors) : \A j \in 1..Len(errors) :
                /\ i <= j => StepOf(errors[i]) <= StepOf(errors[j])
                /\ StepOf(errors[i]) = StepOf(errors[j])

\* C27 amended: the errors of a result follow the order syntax, import,
\* class-structure, security, interface-compliance; a syntax error is the
\* only error of its result; on a candidate that parses each of the four
\* later steps has run whatever the others reported: the result holds the
\* error of a step exactly when the candidate has that step's defect.
C27_OnlySyntaxShortCircuits ==
    pc = "validate_done" =>
        LET StepOf(e) ==
                IF e.text = "Syntax error at line" THEN 1
                ELSE IF e.text \in {"Forbidden import detected",
                                    "Missing required import: crewai.tools.BaseTool"}
                THEN 2
                ELSE IF e.text \in {"No class definition found",
                                    "No class inheriting from BaseTool found"}
                THEN 3
                ELSE IF e.text = "Dangerous function call detected" THEN 4
                ELSE IF e.text \in {"Missing required attributes",
                                    "Missing required methods"}
                THEN 5
                ELSE 0
            code == generated_code[1]
            errors == ast_validation[1].errors
            Has(t) == \E i \in 1..Len(errors) : errors[i].text = t
            tools == { i \in 1..Len(code.classes) : "BaseTool" \in code.classes[i].bases }
            first == code.classes[CHOOSE i \in tools : \A j \in tools : i <= j]
        IN  /\ \A i \in 1..Len(errors) : \A j \in 1..Len(errors) :
                  i <= j => StepOf(errors[i]) <= StepOf(errors[j])
            /\ code.parse = "SyntaxError" =>
                  (Len(errors) = 1 /\ StepOf(errors[1]) = 1)
            /\ code.parse = "tree" =>
                  /\ Has("Missing required import: crewai.tools.BaseTool")
                        <=> ImpCrewai \notin code.imports
                  /\ Has("Forbidden import detected") <=> ImpOsSystem \in code.imports
                  /\ Has("No class definition found") <=> code.classes = <<>>
                  /\ Has("No class inheriting from BaseTool found")
                        <=> (code.classes # <<>> /\ tools = {})
                  /\ Has("Dangerous function call detected")
                        <=> \E k \in 1..Len(code.calls) :
                               code.calls[k] \in {"eval", "exec", "__import__", "compile"}
                  /\ Has("Missing required attributes")
                        <=> (tools # {} /\ ~({"name", "description", "args_schema"}
                                                \subseteq (first.ann \cup first.plain)))
                  /\ Has("Missing required methods")
                        <=> (tools # {} /\ ~({"_run", "run"}
                                                \subseteq { m.name : m \in first.methods }))

\* C27 witness: a parsed candidate without the crewai import, with a call of
\* exec and a tool class without args_schema: the result holds the errors of
\* the import step, the security step and the compliance step together
C27_Witness ==
    /\ pc = "validate_done"
    /\ generated_code[1].parse = "tree"
    /\ \E i \in 1..Len(ast_validation[1].errors) :
          ast_validation[1].errors[i].text =
              "Missing required import: crewai.tools.BaseTool"
    /\ \E i \in 1..Len(ast_validation[1].errors) :
          ast_validation[1].errors[i].text = "Dangerous function call detected"
    /\ \E i \in 1..Len(ast_validation[1].errors) :
          ast_validation[1].errors[i].text = "Missing required attributes"

\* C28: whenever validate_tool returns is_valid = true its error list
\* (structural errors followed by the scorer's issues) is empty.
C28_AcceptedHasNoErrors ==
    (pc = "validate_tool_done" /\ validation_result # None
        /\ validation_result[1].is_valid) =>
        validation_result[1].errors = <<>>

\* C29: whenever validate_tool returns is_valid = false its error list is
\* non-empty: a candidate is rejected either with a structural error or with
\* a scorer issue, never for its score alone.
C29_RejectedHasErrors ==
    (pc = "validate_tool_done" /\ validation_result # None
        /\ ~validation_result[1].is_valid) =>
        validation_result[1].errors # <<>>

\* C29 witness: a structurally valid candidate rejected for its score; its
\* error list holds the scorer's issues and nothing else
C29_Witness ==
    /\ pc = "validate_tool_done"
    /\ validation_result # None
    /\ ~validation_result[1].is_valid
    /\ ast_validation[1].is_valid
    /\ ast_validation[1].errors = <<>>
    /\ analysis.value.pattern_score < 70
    /\ validation_result[1].errors = analysis.value.issues
    /\ validation_result[1].errors # <<>>

\* C30: for every parsable candidate with a tool class on which the
\* structural validator reports no missing required attribute and no missing
\* required method, the scorer's base-type, primary-run, args-schema and
\* attributes signals are all true; if the documentation, error-handling,
\* imports and type-hints signals are true as well, the score is 100 and,
\* the candidate having no forbidden import and no dangerous call, the gate
\* accepts.
C30_ValidatorAndScorerAgree ==
    (pc = "validate_tool_done" /\ generated_code[1].parse = "tree"
        /\ analysis.tag = "return"
        /\ FindToolClass(generated_code[1].classes) # 0
        /\ \A i \in 1..Len(ast_validation[1].errors) :
              ast_validation[1].errors[i].text \notin
                  {"Missing required attributes", "Missing required methods"}) =>
        LET code == generated_code[1]
            r == analysis.value
        IN  /\ r.has_base_tool
            /\ r.has_run_method
            /\ r.has_args_schema
            /\ PatternMatcher_check_required_attributes(code)[1]
            /\ (/\ r.has_docstrings
                /\ r.has_error_handling
                /\ PatternMatcher_check_imports(code)[1]
                /\ PatternMatcher_check_type_hints(code)[1]) =>
                  /\ r.pattern_score = 100
                  /\ (/\ ImpOsSystem \notin code.imports
                      /\ \A k \in 1..Len(code.calls) :
                            code.calls[k] \notin {"eval", "exec", "__import__",
                                                  "compile"})
                        => validation_result[1].is_valid

====
